---- MODULE Spec2Model ----
(***************************************************************************)
(* The pack/unpack engine of foundryvtt-cli (lib/package.mjs): compilePack *)
(* and extractPack over the sorted store (LevelDB) and the log store       *)
(* (NeDB), the hierarchy walker, the key codec, the volatile-diff gate and *)
(* the staging protocol of extractPack.                                    *)
(*                                                                         *)
(* Representation.  A JavaScript string is a sequence of symbols: the      *)
(* separators "!", ".", "_", " " are symbols of their own, every other     *)
(* symbol stands for a run of characters that holds no separator.  A       *)
(* document is a function from the names of the fields it has to their     *)
(* values; a field the object lacks is outside the DOMAIN.  An array slot  *)
(* is a sequence; a single-arity slot is a sequence of at most one element *)
(* (<<>> is null).  A file holds the parsed document (JSON.parse of        *)
(* JSON.stringify of a document is that document, key order aside).        *)
(***************************************************************************)
EXTENDS Integers, Sequences, FiniteSets, TLC

VARIABLES
  dirs,      \* directories of source files: path -> [exists, files: relative path -> document]
  packs,     \* sorted stores: path -> [exists, data: key -> value]
  dbfiles,   \* log store files: path -> [exists, records: sequence of documents]
  staging,   \* number of staging directories that exist under os.tmpdir()
  last,      \* the last call: its arguments and its outcome
  pre,       \* the file system the last call started from
  prev,      \* the call before the last one
  codec,     \* key codec exercise: parts, encoded key, decoded parts
  cli,       \* the package command: configuration, the pack's LOCK, the last run
  walk,      \* hierarchy walker exercise: the value walked and the calls of the callback
  build,     \* folder map exercise: the folders and the loop over the parents of one
  stage      \* extractPack step by step: where it stands, what it staged and read

vars == <<dirs, packs, dbfiles, staging, last, pre, prev, codec, cli, walk, build, stage>>

(***************************************************************************)
(* Strings                                                                 *)
(***************************************************************************)
Bang == "!"
Dot == "."
Underscore == "_"

EmptyFn == [x \in {} |-> x]

Has(d, f) == f \in DOMAIN d
Put(d, f, v) == [x \in (DOMAIN d) \cup {f} |-> IF x = f THEN v ELSE d[x]]
Del(d, f) == [x \in (DOMAIN d) \ {f} |-> d[x]]

\* doc[f] of JavaScript for a string field: undefined (here the empty string,
\* which is falsy like undefined) when the object lacks it.
Field(d, f) == IF Has(d, f) THEN d[f] ELSE <<>>

RECURSIVE Flatten(_)
Flatten(ss) == IF ss = <<>> THEN <<>> ELSE Head(ss) \o Flatten(Tail(ss))

RECURSIVE Join(_, _)
\* Array.prototype.join
Join(parts, sep) ==
  IF parts = <<>> THEN <<>>
  ELSE IF Len(parts) = 1 THEN parts[1]
  ELSE parts[1] \o <<sep>> \o Join(Tail(parts), sep)

RECURSIVE SplitFrom(_, _, _)
SplitFrom(s, sep, cur) ==
  IF s = <<>> THEN <<cur>>
  ELSE IF Head(s) = sep THEN <<cur>> \o SplitFrom(Tail(s), sep, <<>>)
  ELSE SplitFrom(Tail(s), sep, Append(cur, Head(s)))

\* String.prototype.split: "!a!b".split("!") is ["", "a", "b"]
Split(s, sep) == SplitFrom(s, sep, <<>>)

\* arr[i] of a destructuring pattern, 0-based; undefined is the empty string
Nth(arr, i) == IF i + 1 <= Len(arr) THEN arr[i + 1] ELSE <<>>

Includes(s, sym) == \E i \in 1..Len(s) : s[i] = sym

StartsWith(s, p) == Len(s) >= Len(p) /\ SubSeq(s, 1, Len(p)) = p

(***************************************************************************)
(* Key codec                                                               *)
(***************************************************************************)
\* A keyJoin that forgets the separator.
keyJoinNoDot(a, b) == Flatten(SelectSeq(<<a, b>>, LAMBDA x : x # <<>>))

\* keyJoin(...args): join the non-blank parts with "."
keyJoin(a, b) == Join(SelectSeq(<<a, b>>, LAMBDA x : x # <<>>), Dot)

\* `!${sublevel}!${id}`
MakeKey(sublevel, id) == <<Bang>> \o sublevel \o <<Bang>> \o id

RECURSIVE PrefixJoin(_, _)
\* The prefix threaded down the hierarchy: keyJoin(keyJoin(keyJoin(undefined, p1), p2), ...)
PrefixJoin(prefix, parts) ==
  IF parts = <<>> THEN prefix
  ELSE PrefixJoin(keyJoin(prefix, Head(parts)), Tail(parts))

EncodeKey(sublevels, ids) == MakeKey(PrefixJoin(<<>>, sublevels), PrefixJoin(<<>>, ids))

\* A destructuring that does not skip the empty segment before the first "!".
DecodeKeyUnskipped(key) ==
  LET segs == Split(key, Bang)
  IN [collection |-> Nth(segs, 0), id |-> Nth(segs, 1)]

\* const [, collection, id] = key.split("!")
DecodeKey(key) ==
  LET segs == Split(key, Bang)
  IN [collection |-> Nth(segs, 1), id |-> Nth(segs, 2)]

\* the element of a set of one element: The({F(x) : x \in {e}}) is F(e) with e
\* computed once
The(S) == CHOOSE x \in S : TRUE

(***************************************************************************)
(* Hierarchy catalog                                                       *)
(***************************************************************************)
Arr(n) == [name |-> n, arity |-> "array"]
One(n) == [name |-> n, arity |-> "single"]

HIERARCHY ==
  [actors    |-> <<Arr("items"), Arr("effects")>>,
   cards     |-> <<Arr("cards")>>,
   combats   |-> <<Arr("combatants"), Arr("groups")>>,
   delta     |-> <<Arr("items"), Arr("effects")>>,
   items     |-> <<Arr("effects")>>,
   journal   |-> <<Arr("pages"), Arr("categories")>>,
   playlists |-> <<Arr("sounds")>>,
   regions   |-> <<Arr("behaviors")>>,
   tables    |-> <<Arr("results")>>,
   tokens    |-> <<One("delta")>>,
   scenes    |-> <<Arr("drawings"), Arr("tokens"), Arr("lights"), Arr("notes"), Arr("regions"),
                   Arr("sounds"), Arr("templates"), Arr("tiles"), Arr("walls")>>]

TYPE_COLLECTION_MAP ==
  [Actor |-> "actors", Adventure |-> "adventures", Cards |-> "cards", ChatMessage |-> "messages",
   Combat |-> "combats", FogExploration |-> "fog", Folder |-> "folders", Item |-> "items",
   JournalEntry |-> "journal", Macro |-> "macros", Playlist |-> "playlists", RollTable |-> "tables",
   Scene |-> "scenes", Setting |-> "settings", User |-> "users"]

VOLATILE_FIELDS == {"createdTime", "modifiedTime", "lastModifiedBy", "systemVersion", "coreVersion"}

\* Object.entries(HIERARCHY[collection] ?? {}); collection is a string
Embedded(collection) ==
  IF Len(collection) = 1 /\ collection[1] \in DOMAIN HIERARCHY THEN HIERARCHY[collection[1]] ELSE <<>>

SlotNames(collection) == {Embedded(collection)[k].name : k \in 1..Len(Embedded(collection))}

\* doc[embeddedCollectionName] as the list of its elements: none when the slot
\* is missing or null
Slot(doc, name) == IF Has(doc, name) THEN doc[name] ELSE <<>>

(***************************************************************************)
(* Hierarchy walker                                                        *)
(***************************************************************************)
\* a mapHierarchy that writes only the slots the document has
mapHierarchyPresent(doc, collection) ==
  [f \in DOMAIN doc |->
     IF f \in SlotNames(collection)
       THEN [i \in 1..Len(doc[f]) |-> Field(doc[f][i], "_id")]
       ELSE doc[f]]

\* mapHierarchy(value, collection, d => d._id): every slot of the catalog is
\* written, a missing one as [] or null
mapHierarchyIds(doc, collection) ==
  [f \in (DOMAIN doc) \cup SlotNames(collection) |->
     IF f \in SlotNames(collection)
       THEN [i \in 1..Len(Slot(doc, f)) |-> Field(Slot(doc, f)[i], "_id")]
       ELSE doc[f]]

RECURSIVE packDoc(_, _)
\* applyHierarchy of compileClassicLevel's callback: the batch.put calls, in
\* the order the walker makes them (a document, then the documents of each of
\* its slots in catalog order)
packDoc(doc, collection) ==
  LET slots == Embedded(collection)
      under(k) == LET els == Slot(doc, slots[k].name)
                  IN Flatten([i \in 1..Len(els) |-> packDoc(els[i], <<slots[k].name>>)])
  IN <<[key |-> Field(doc, "_key"), value |-> mapHierarchyIds(Del(doc, "_key"), collection)]>>
       \o Flatten([k \in 1..Len(slots) |-> under(k)])

RECURSIVE unpackDoc(_, _, _, _, _)
\* applyHierarchy of extractClassicLevel's callback on a stored value: assign
\* _key, resolve every reference of every catalog slot with db.get, then walk
\* the resolved documents.  ok is FALSE when some db.get finds no entry.
unpackDoc(db, value, collection, sublevelPrefix, idPrefix) ==
  LET sublevel == keyJoin(sublevelPrefix, collection)
      id == keyJoin(idPrefix, Field(value, "_id"))
      names == SlotNames(collection)
      EmbeddedKey(n, embeddedId) ==
        <<Bang>> \o sublevel \o <<Dot, n, Bang>> \o id \o <<Dot>> \o embeddedId
      refs(n) == Slot(value, n)
      found == \A n \in names : \A i \in 1..Len(refs(n)) : EmbeddedKey(n, refs(n)[i]) \in DOMAIN db
      child(n, i) == unpackDoc(db, db[EmbeddedKey(n, refs(n)[i])], <<n>>, sublevel, id)
  IN IF found /\ \A n \in names : \A i \in 1..Len(refs(n)) : child(n, i).ok
       THEN [ok |-> TRUE,
             doc |-> [f \in (DOMAIN value) \cup names \cup {"_key"} |->
                        IF f = "_key" THEN MakeKey(sublevel, id)
                        ELSE IF f \in names THEN [i \in 1..Len(refs(f)) |-> child(f, i).doc]
                        ELSE value[f]]]
       ELSE [ok |-> FALSE, doc |-> EmptyFn]

(***************************************************************************)
(* File names                                                              *)
(***************************************************************************)
\* Symbols that stand for characters of [a-zA-Z0-9] or of U+0410..U+044F
SafeSymbols ==
  {"a", "b", "e", "f", "g", "i", "j", "n", "m", "v", "Hero", "Sword", "Zh", "Actor", "Item",
   "Folder", "Adventure"}

\* A name that is used as it is.
getSafeFilenameRaw(filename) == filename

\* filename.replace(/[^a-zA-Z0-9А-я]/g, '_')
getSafeFilename(filename) ==
  [k \in 1..Len(filename) |-> IF filename[k] \in SafeSymbols THEN filename[k] ELSE Underscore]

\* yaml ? "yml" : "json", with the dot before it
Ext(yaml) == IF yaml THEN ".yml" ELSE ".json"

\* path.extname of a source file name
FileExt(name) == IF name = <<>> THEN "" ELSE name[Len(name)]

\* extractClassicLevel's file name when transformName gives none and folders is off
LevelFileName(key, doc, yaml) ==
  (IF Field(doc, "name") # <<>>
     THEN getSafeFilename(doc["name"]) \o <<Underscore>> \o DecodeKey(key).id
     ELSE key) \o <<Ext(yaml)>>

\* extractNedb's file name when transformName gives none
NedbFileName(doc, yaml) ==
  (IF Field(doc, "name") # <<>>
     THEN getSafeFilename(doc["name"]) \o <<Underscore>> \o Field(doc, "_id")
     ELSE Field(doc, "_id")) \o <<Ext(yaml)>>

(***************************************************************************)
(* Key order of the sorted store                                           *)
(***************************************************************************)
\* The symbols of keys, in the byte order of the strings they stand for
SymbolOrder ==
  <<"!", ".", "a", "actors", "adventures", "b", "delta", "e", "effects", "f", "folders", "g",
    "i", "items", "j", "n", "scenes", "tokens", "v">>

Rank(sym) ==
  IF \E k \in 1..Len(SymbolOrder) : SymbolOrder[k] = sym
    THEN CHOOSE k \in 1..Len(SymbolOrder) : SymbolOrder[k] = sym
    ELSE Len(SymbolOrder) + 1

RECURSIVE KeyLess(_, _)
KeyLess(s, t) ==
  IF t = <<>> THEN FALSE
  ELSE IF s = <<>> THEN TRUE
  ELSE IF Head(s) = Head(t) THEN KeyLess(Tail(s), Tail(t))
  ELSE Rank(Head(s)) < Rank(Head(t))

\* db.iterator() and db.keys() yield the keys in ascending order: the key at
\* position i has i - 1 keys before it
SortedKeys(keys) ==
  The({[i \in 1..Cardinality(keys) |-> CHOOSE k \in keys : before[k] = i - 1] :
         before \in {[k \in keys |-> Cardinality({other \in keys : KeyLess(other, k)})]}})

(***************************************************************************)
(* Volatile-diff gate                                                      *)
(***************************************************************************)
\* The callback of checkVolatile on one document a of the clone: b is the
\* document of the existing file it is paired with (none: <<>>).
\* ok is FALSE when a._stats[p] = ... throws because a has no _stats.
overlayStats(a, b) ==
  IF b = <<>> \/ ~Has(b[1], "_stats") THEN [ok |-> TRUE, doc |-> a]
  ELSE LET bs == b[1]["_stats"]
           copied == (DOMAIN bs) \cap VOLATILE_FIELDS
       IN IF copied = {} THEN [ok |-> TRUE, doc |-> a]
          ELSE IF ~Has(a, "_stats") THEN [ok |-> FALSE, doc |-> a]
          ELSE [ok |-> TRUE,
                doc |-> Put(a, "_stats",
                            [p \in (DOMAIN a["_stats"]) \cup copied |->
                               IF p \in copied THEN bs[p] ELSE a["_stats"][p]])]

\* const b = i === null ? base : i < 0 ? base[collection] : base[collection]?.[i]
\* (i is <<>> for null, else <<index>>)
pairedWith(base, collection, i) ==
  IF i = <<>> THEN <<base>>
  ELSE LET slot == Slot(base, collection[1])
       IN IF i[1] < 0 THEN slot
          ELSE IF i[1] + 1 <= Len(slot) THEN <<slot[i[1] + 1]>> ELSE <<>>

RECURSIVE overlay(_, _, _, _)
\* applyHierarchySync(callback)(copy, collection, i): the clone with the
\* volatile fields of the existing file laid over it
overlay(a, collection, i, base) ==
  LET own == overlayStats(a, pairedWith(base, collection, i))
      slots == Embedded(collection)
      names == SlotNames(collection)
      arity(n) == (CHOOSE k \in 1..Len(slots) : slots[k].name = n)
      index(n, k) == IF slots[arity(n)].arity = "array" THEN <<k - 1>> ELSE <<0 - 1>>
      child(n, k) == overlay(a[n][k], <<n>>, index(n, k), base)
      present == {n \in names : Has(a, n)}
  IN IF own.ok /\ \A n \in present : \A k \in 1..Len(a[n]) : child(n, k).ok
       THEN [ok |-> TRUE,
             doc |-> [f \in DOMAIN a |->
                        IF f \in present THEN [k \in 1..Len(a[f]) |-> child(f, k).doc]
                        ELSE own.doc[f]]]
       ELSE [ok |-> FALSE, doc |-> a]

\* checkVolatile(doc, name, { omitVolatile, existing, collection }): the data to
\* write.  existing is the files of the directory the gate reads.
checkVolatile(doc, name, omitVolatile, existing, collection) ==
  IF ~omitVolatile \/ ~Has(doc, "_stats") THEN doc
  ELSE IF name \notin DOMAIN existing THEN doc
  ELSE LET base == existing[name]
       IN IF ~Has(base, "_stats") THEN doc
          ELSE LET copy == overlay(doc, collection, <<>>, base)
               IN IF copy.ok /\ copy.doc = base THEN base ELSE doc

(***************************************************************************)
(* Compiling: source documents -> pack                                     *)
(***************************************************************************)
\* A transformer whose answer is not looked at.
DiscardsNever(transformEntry, doc) == FALSE

\* await transformEntry?.(doc) === false; a transformer is given by the _ids
\* of the entries it discards ({}: no transformer)
Discards(transformEntry, doc) == Field(doc, "_id") \in transformEntry

\* A walker that never finds a key already packed.
DuplicateKeyUnchecked(keys) == FALSE

\* seenKeys.has(key) holds for some walked document
DuplicateKey(keys) == \E i, j \in 1..Len(keys) : i < j /\ keys[i] = keys[j]

\* No removal of the entries that are not part of the source set.
StaleKeysKept(data, seenKeys) == {}

\* "Remove any entries in the DB that are not part of the source set"
StaleKeys(data, seenKeys) == (DOMAIN data) \ seenKeys

\* the value of the last batch.put under key: later operations of a batch
\* replace earlier ones
LastPut(puts, key) ==
  puts[CHOOSE i \in 1..Len(puts) :
         puts[i].key = key /\ \A j \in i + 1..Len(puts) : puts[j].key # key].value

\* A loop that skips no file.
SkippedNever(doc) == FALSE

\* if ( !doc._key ) continue;
Skipped(doc) == Field(doc, "_key") = <<>>

\* compileClassicLevel on the store's contents: the batch is written only
\* when every file has been walked
compileClassicLevel(data, files, transformEntry) ==
  LET kept == SelectSeq(files, LAMBDA doc : ~Skipped(doc) /\ ~Discards(transformEntry, doc))
      walked == Flatten([k \in 1..Len(kept) |->
                           packDoc(kept[k], DecodeKey(Field(kept[k], "_key")).collection)])
      batch(puts, keys) ==
        LET seenKeys == {keys[k] : k \in 1..Len(keys)}
            undefinedAt == {k \in 1..Len(keys) : keys[k] = <<>>}
            repeatedAt == {k \in 1..Len(keys) : DuplicateKey(SubSeq(keys, 1, k))}
            before(A, B) == A # {} /\ \A y \in B : \E x \in A : x <= y
        IN IF repeatedAt # {} /\ ~before(undefinedAt, repeatedAt)
             THEN [result |-> "DuplicateKey", data |-> data]
           ELSE IF undefinedAt # {}
             THEN [result |-> "InvalidKey", data |-> data]
           ELSE [result |-> "ok",
                 data |-> [key \in ((DOMAIN data) \ StaleKeys(data, seenKeys)) \cup seenKeys |->
                             IF key \in seenKeys
                               THEN LastPut(puts, key)
                               ELSE data[key]]]
  IN The({The({batch(puts, keys) : keys \in {[k \in 1..Len(puts) |-> puts[k].key]}}) :
            puts \in {walked}})

\* a callback that deletes nothing
stripKeysKept(doc, collection) == doc

RECURSIVE stripKeys(_, _)
\* applyHierarchy of compileNedb's callback: delete doc._key on every walked document
stripKeys(doc, collection) ==
  [f \in (DOMAIN doc) \ {"_key"} |->
     IF f \in SlotNames(collection)
       THEN [k \in 1..Len(doc[f]) |-> stripKeys(doc[f][k], <<f>>)]
       ELSE doc[f]]

RECURSIVE compileNedb(_, _, _, _)
\* the loop of compileNedb over the files left, with the keys seen and the
\* records inserted so far.  loaded: the datafile has been opened (created).
compileNedb(files, transformEntry, seenKeys, records) ==
  IF files = <<>> THEN [result |-> "ok", records |-> records, loaded |-> TRUE]
  ELSE LET doc == Head(files)
           key == Field(doc, "_key")
           collection == DecodeKey(key).collection
           walked == packDoc(doc, collection)
           keys == [k \in 1..Len(walked) |-> walked[k].key]
       IN IF Skipped(doc) \/ StartsWith(key, <<Bang, "folders">>) \/ Discards(transformEntry, doc)
            THEN compileNedb(Tail(files), transformEntry, seenKeys, records)
          ELSE IF DuplicateKey(keys) \/ \E k \in 1..Len(keys) : keys[k] \in seenKeys
            THEN [result |-> "DuplicateKey", records |-> records, loaded |-> records # <<>>]
          ELSE IF \E k \in 1..Len(records) : Field(records[k], "_id") = Field(doc, "_id")
            THEN [result |-> "UniqueViolated", records |-> records, loaded |-> TRUE]
          ELSE compileNedb(Tail(files), transformEntry,
                           seenKeys \cup {keys[k] : k \in 1..Len(keys)},
                           Append(records, stripKeys(doc, collection)))

(***************************************************************************)
(* Extracting: pack -> source documents                                    *)
(***************************************************************************)
\* path.join of two paths; "" and "." are the empty path
pathJoin(a, b) == IF a = <<>> THEN b ELSE IF b = <<>> THEN a ELSE a \o <<"/">> \o b

\* path.basename
basename(name) == LET parts == Split(name, "/") IN parts[Len(parts)]

\* path.relative(from, to) for a path to beneath from
relative(from, to) == SubSeq(to, Len(from) + 2, Len(to))

\* the elements of a sequence
Range(seq) == {seq[k] : k \in 1..Len(seq)}

ADVENTURE_DOCS ==
  <<"actors", "cards", "combats", "folders", "items", "journal", "playlists", "scenes", "tables",
    "macros">>

COLLECTION_TYPE_MAP ==
  [c \in {TYPE_COLLECTION_MAP[t] : t \in DOMAIN TYPE_COLLECTION_MAP} |->
     CHOOSE t \in DOMAIN TYPE_COLLECTION_MAP : TYPE_COLLECTION_MAP[t] = c]

\* `${getSafeFilename(doc.name)}_${doc._id}`
SafeNameId(doc) == getSafeFilename(Field(doc, "name")) \o <<Underscore>> \o Field(doc, "_id")

RECURSIVE parentPath(_, _, _)
\* the while ( parent ) loop of buildFolderMap
parentPath(folderMap, parent, path) ==
  IF parent \notin DOMAIN folderMap THEN path
  ELSE parentPath(folderMap, folderMap[parent].folder, pathJoin(folderMap[parent].name, path))

\* buildFolderMap(folders, { groupByType }) without transformFolderName
buildFolderMap(folders, groupByType) ==
  LET ids == {Field(folders[k], "_id") : k \in 1..Len(folders)}
      doc == [id \in ids |->
                folders[CHOOSE k \in 1..Len(folders) :
                          /\ Field(folders[k], "_id") = id
                          /\ \A j \in k + 1..Len(folders) : Field(folders[j], "_id") # id]]
      set == [id \in ids |->
                [name |-> IF Field(doc[id], "name") # <<>> THEN SafeNameId(doc[id]) ELSE id,
                 folder |-> Field(doc[id], "folder"), type |-> Field(doc[id], "type")]]
  IN [id \in ids |->
        [name |-> set[id].name, folder |-> set[id].folder, type |-> set[id].type,
         path |-> LET path == parentPath(set, set[id].folder, set[id].name)
                  IN IF groupByType THEN pathJoin(set[id].type, path) ELSE path]]

\* a lookup that finds no folder
PathOfNone(folderMap, id) == <<>>

\* folderMap.get(id)?.path
PathOf(folderMap, id) == IF id \in DOMAIN folderMap THEN folderMap[id].path ELSE <<>>

\* An entry of an embedded collection of an Adventure file is a document or
\* a string, the path of the file that holds the document: the string s is
\* the value [path |-> s], and typeof entry === "string" is IsPathEntry.
PathEntry(path) == [path |-> path]
IsPathEntry(entry) == Has(entry, "path")

\* path.dirname
dirname(name) == LET parts == Split(name, "/") IN Join(SubSeq(parts, 1, Len(parts) - 1), "/")

\* reconstructAdventure(src, doc, { transformEntry }) over the files of the
\* source directory: every string entry is replaced by the document of the
\* file path.join(src, entry), left out when the transformer discards it.
\* ok is FALSE when fs.readFileSync finds no such file.
reconstructAdventure(files, src, doc, transformEntry) ==
  LET file(entry) == pathJoin(src, entry.path)
      read(entry) == IF IsPathEntry(entry) THEN files[file(entry)] ELSE entry
      found(entry) == IsPathEntry(entry) => file(entry) \in DOMAIN files
      kept(entry) == IsPathEntry(entry) => ~Discards(transformEntry, files[file(entry)])
      entries(c) == [k \in 1..Len(SelectSeq(Field(doc, c), kept)) |->
                       read(SelectSeq(Field(doc, c), kept)[k])]
  IN IF \E c \in Range(ADVENTURE_DOCS) : \E k \in 1..Len(Field(doc, c)) : ~found(doc[c][k])
       THEN [ok |-> FALSE, doc |-> doc]
       ELSE [ok |-> TRUE,
             doc |-> [f \in (DOMAIN doc) \cup Range(ADVENTURE_DOCS) |->
                        IF f \in Range(ADVENTURE_DOCS) THEN entries(f) ELSE doc[f]]]

\* one round of extractAdventure's inner loop, for the document e of the
\* collection c of the adventure doc: the file written and the path listed
embeddedEntry(e, c, doc, adventureFolder, embeddedFolderMap, o, existing) ==
  LET ext == <<Ext(o.yaml)>>
      id == Field(e, "_id")
      typeSuffix == IF o.folders THEN <<>> ELSE <<Underscore, COLLECTION_TYPE_MAP[c]>>
      isFolder == c = "folders" /\ id \in DOMAIN embeddedFolderMap
      embeddedFolder ==
        IF isFolder THEN adventureFolder
        ELSE pathJoin(adventureFolder, PathOf(embeddedFolderMap, Field(e, "folder")))
      embeddedName ==
        pathJoin(embeddedFolder,
                 IF isFolder
                   THEN pathJoin(embeddedFolderMap[id].path, <<Underscore, "Folder">> \o ext)
                 ELSE IF Field(e, "name") # <<>>
                   THEN getSafeFilename(e["name"]) \o typeSuffix \o <<Underscore>> \o id \o ext
                 ELSE Field(doc, "_id") \o ext)
  IN The({[name |-> n,
           path |-> IF adventureFolder # <<>> THEN relative(adventureFolder, n) ELSE basename(n),
           data |-> checkVolatile(e, n, o.omitVolatile, existing, <<c>>)] : n \in {embeddedName}})

\* extractAdventure(doc, dest, { folderMap }, options) without transformName:
\* the files written, in the order they are written.  TypeError:
\* getSafeFilename(doc.name) of an Adventure without name.
extractAdventure(doc, folderMap, o, existing) ==
  LET ext == <<Ext(o.yaml)>>
      folder == PathOf(folderMap, Field(doc, "folder"))
      named == Field(doc, "name") # <<>>
      adventureFolder == IF o.folders THEN pathJoin(folder, SafeNameId(doc)) ELSE folder
      name == IF o.folders THEN pathJoin(adventureFolder, <<Underscore, "Adventure">> \o ext)
              ELSE pathJoin(folder, (IF named THEN SafeNameId(doc) ELSE Field(doc, "_id")) \o ext)
      embeddedFolderMap == IF o.folders THEN buildFolderMap(Field(doc, "folders"), TRUE) ELSE EmptyFn
      kept(c) == SelectSeq(Field(doc, c), LAMBDA e : ~Discards(o.transformEntry, e))
      loop(af, efm) ==
        [c \in Range(ADVENTURE_DOCS) |->
           [k \in 1..Len(kept(c)) |-> embeddedEntry(kept(c)[k], c, doc, af, efm, o, existing)]]
      listed(entries) ==
        [f \in (DOMAIN doc) \cup Range(ADVENTURE_DOCS) |->
           IF f \in Range(ADVENTURE_DOCS)
             THEN [k \in 1..Len(entries[f]) |-> PathEntry(entries[f][k].path)]
             ELSE doc[f]]
      writes(entries) ==
        Flatten([i \in 1..Len(ADVENTURE_DOCS) |->
                   [k \in 1..Len(entries[ADVENTURE_DOCS[i]]) |->
                      [name |-> entries[ADVENTURE_DOCS[i]][k].name,
                       data |-> entries[ADVENTURE_DOCS[i]][k].data]]])
          \o <<[name |-> name,
                data |-> checkVolatile(listed(entries), name, o.omitVolatile, existing, <<>>)]>>
  IN IF o.folders /\ ~named THEN [result |-> "TypeError", writes |-> <<>>]
     ELSE [result |-> "ok",
           writes |-> The({writes(entries) :
                             entries \in {loop(af, efm) : af \in {adventureFolder},
                                                          efm \in {embeddedFolderMap}}})]

\* one round of extractClassicLevel's loop, for the primary entry under key
extractEntry(data, key, folderMap, existing, o) ==
  LET collection == DecodeKey(key).collection
      round(doc) ==
        LET id == Field(doc, "_id")
            name == pathJoin(PathOf(folderMap, Field(doc, "folder")),
                             IF StartsWith(key, <<Bang, "folders">>) /\ id \in DOMAIN folderMap
                               THEN pathJoin(folderMap[id].name, <<Underscore, "Folder", Ext(o.yaml)>>)
                               ELSE LevelFileName(key, doc, o.yaml))
        IN IF Discards(o.transformEntry, doc) THEN [result |-> "ok", writes |-> <<>>]
           ELSE IF StartsWith(key, <<Bang, "adventures">>) /\ o.expandAdventures
             THEN extractAdventure(doc, folderMap, o, existing)
           ELSE [result |-> "ok",
                 writes |-> <<[name |-> name,
                              data |-> checkVolatile(doc, name, o.omitVolatile, existing,
                                                     collection)]>>]
  IN The({IF unpacked.ok THEN round(unpacked.doc) ELSE [result |-> "NotFound", writes |-> <<>>] :
            unpacked \in {unpackDoc(data, data[key], collection, <<>>, <<>>)}})

\* the files a sequence of writes leaves: a later write replaces an earlier one
Written(writes) ==
  [n \in {writes[k].name : k \in 1..Len(writes)} |->
     writes[CHOOSE k \in 1..Len(writes) :
              /\ writes[k].name = n
              /\ \A j \in k + 1..Len(writes) : writes[j].name # n].data]

\* extractClassicLevel on the store's contents: the files written under the
\* output directory.  fault: a read or a write of the loop fails.
extractClassicLevel(data, existing, o) ==
  LET keys == SortedKeys(DOMAIN data)
      primary == SelectSeq(keys, LAMBDA key : ~Includes(DecodeKey(key).collection, Dot))
      folderKeys == SelectSeq(keys, LAMBDA key : StartsWith(key, <<Bang, "folders">>))
      folderMap == IF o.folders
                     THEN buildFolderMap([k \in 1..Len(folderKeys) |-> data[folderKeys[k]]], FALSE)
                     ELSE EmptyFn
      loop(pr, fm) == [k \in 1..Len(pr) |-> extractEntry(data, pr[k], fm, existing, o)]
      settle(rounds) ==
        LET failed == {k \in 1..Len(rounds) : rounds[k].result # "ok"}
        IN IF \E k \in failed : rounds[k].result = "NotFound"
             THEN [result |-> "NotFound", files |-> EmptyFn]
           ELSE IF failed # {}
             THEN [result |-> rounds[CHOOSE k \in failed : \A j \in failed : k <= j].result,
                   files |-> EmptyFn]
           ELSE IF o.fault THEN [result |-> "IOError", files |-> EmptyFn]
           ELSE [result |-> "ok",
                 files |-> The({Written(writes) :
                                  writes \in {Flatten([k \in 1..Len(rounds) |-> rounds[k].writes])}})]
  IN The({settle(rounds) : rounds \in {loop(pr, fm) : pr \in {primary}, fm \in {folderMap}}})

RECURSIVE assignKeys(_, _, _, _)
\* applyHierarchy of extractNedb's callback: assign _key down the hierarchy
assignKeys(doc, collection, sublevelPrefix, idPrefix) ==
  LET sublevel == keyJoin(sublevelPrefix, collection)
      id == keyJoin(idPrefix, Field(doc, "_id"))
  IN [f \in (DOMAIN doc) \cup {"_key"} |->
        IF f = "_key" THEN MakeKey(sublevel, id)
        ELSE IF f \in SlotNames(collection)
          THEN [k \in 1..Len(doc[f]) |-> assignKeys(doc[f][k], <<f>>, sublevel, id)]
          ELSE doc[f]]

\* extractNedb on the records of the datafile
extractNedb(records, existing, collection, o) ==
  LET unpacked == [k \in 1..Len(records) |-> assignKeys(records[k], collection, <<>>, <<>>)]
      kept == {k \in 1..Len(records) : ~Discards(o.transformEntry, unpacked[k])}
      name == [k \in kept |-> NedbFileName(unpacked[k], o.yaml)]
      lastOf(n) == CHOOSE k \in kept : name[k] = n /\ \A j \in kept : name[j] = n => j <= k
  IN IF o.fault
       THEN [result |-> "IOError", files |-> EmptyFn]
       ELSE [result |-> "ok",
             files |-> [n \in {name[k] : k \in kept} |->
                          checkVolatile(unpacked[lastOf(n)], n, o.omitVolatile, existing, collection)]]

(***************************************************************************)
(* File system                                                             *)
(***************************************************************************)
DirPaths == {"src", "out"}
PackPaths == {"p", "q", "p.db"}

\* path.extname of the pack paths
ExtName(path) == IF path = "p.db" THEN ".db" ELSE ""

NoDir == [exists |-> FALSE, files |-> EmptyFn]
NoPack == [exists |-> FALSE, data |-> EmptyFn]
NoFile == [exists |-> FALSE, records |-> <<>>]

\* the file system as one value
Fs == [dirs |-> dirs, packs |-> packs, dbfiles |-> dbfiles, staging |-> staging]

\* an error thrown before anything was touched
Thrown(fs, result) ==
  [fs |-> fs, result |-> result, ranNedb |-> FALSE, nedbResult |-> "", openedLevel |-> FALSE,
   opened |-> FALSE, closed |-> FALSE, produced |-> {}]

\* the outcome of a call that ran no extraction
Ran(fs, result) ==
  [fs |-> fs, result |-> result, ranNedb |-> FALSE, nedbResult |-> "", openedLevel |-> FALSE,
   opened |-> FALSE, closed |-> FALSE, produced |-> {}]

\* the outcome of compileClassicLevel: new ClassicLevel(pack) opens the store,
\* await db.close() is the last statement and is reached only without a throw
RanLevel(fs, result) ==
  [Ran(fs, result) EXCEPT !.opened = TRUE, !.closed = (result = "ok")]

\* a and then b over it (files of b replace files of a)
Merge(a, b) == [n \in (DOMAIN a) \cup (DOMAIN b) |-> IF n \in DOMAIN b THEN b[n] ELSE a[n]]

\* the sequences that list every element of S once: the orders fs.readdirSync may return
Orders(S) ==
  {order \in [1..Cardinality(S) -> S] : \A i, j \in 1..Cardinality(S) : order[i] = order[j] => i = j}

\* An argument check that lets every target through.
BadTargetUnchecked(nedb, path) == FALSE

\* nedb && (path.extname(dest) !== ".db")
BadTarget(nedb, path) == nedb /\ ExtName(path) # ".db"

\* findSourceFiles(root, { yaml, recursive }) over the names readdirSync returned
findSourceFiles(order, yaml, recursive) ==
  SelectSeq(order, LAMBDA name :
    /\ recursive \/ ~Includes(name, "/")
    /\ IF yaml THEN FileExt(name) \in {".yml", ".yaml"} ELSE FileExt(name) = ".json")

\* A datafile that is left in place.
unlinkSyncSkipped(file) == file

\* "Delete the existing NeDB file if it exists."
unlinkSync(file) == NoFile

\* the documents the loop over the source files of a compile works on: a
\* file whose _key starts with !adventures is reconstructed first.  The loop
\* ends at the first Adventure with a path that names no file (failed).
sourceDocs(dir, names, transformEntry) ==
  LET read(k) ==
        IF StartsWith(Field(dir[names[k]], "_key"), <<Bang, "adventures">>)
          THEN reconstructAdventure(dir, dirname(names[k]), dir[names[k]], transformEntry)
          ELSE [ok |-> TRUE, doc |-> dir[names[k]]]
      failing == {k \in 1..Len(names) : ~read(k).ok}
      upto == IF failing = {} THEN Len(names)
              ELSE (CHOOSE k \in failing : \A j \in failing : k <= j) - 1
  IN [failed |-> failing # {}, docs |-> [k \in 1..upto |-> read(k).doc]]

\* compilePack(src, dest, { nedb, yaml, recursive, transformEntry })
compilePack(fs, src, dest, o, order) ==
  IF BadTarget(o.nedb, dest) THEN Thrown(fs, "BadTarget")
  ELSE IF ~fs.dirs[src].exists THEN Thrown(fs, "ENOENT")
  ELSE
    LET names == findSourceFiles(order, o.yaml, o.recursive)
        source == sourceDocs(fs.dirs[src].files, names, o.transformEntry)
        files == source.docs
        result(r) == IF source.failed /\ r.result = "ok" THEN "ENOENT" ELSE r.result
    IN IF o.nedb
         THEN \* fs.unlinkSync(pack), Datastore.create(pack), the inserts
              IF fs.packs[dest].exists THEN Thrown(fs, "EISDIR")
              ELSE The({Ran([fs EXCEPT !.dbfiles[dest] =
                                         IF r.loaded THEN [exists |-> TRUE, records |-> r.records]
                                         ELSE NoFile],
                            result(r)) :
                          r \in {compileNedb(files, o.transformEntry, {},
                                             unlinkSync(fs.dbfiles[dest]).records)}})
         ELSE \* fs.mkdirSync(pack), new ClassicLevel(pack), the batch
              IF fs.dbfiles[dest].exists THEN Thrown(fs, "EEXIST")
              ELSE The({RanLevel([fs EXCEPT !.packs[dest] =
                                              [exists |-> TRUE,
                                               data |-> IF source.failed THEN fs.packs[dest].data
                                                        ELSE r.data]],
                                 result(r)) :
                          r \in {compileClassicLevel(fs.packs[dest].data, files, o.transformEntry)}})

\* collection ??= TYPE_COLLECTION_MAP[documentType]; "" is an option not given
resolveCollection(o) ==
  IF o.collection # "" THEN <<o.collection>>
  ELSE IF o.documentType \in DOMAIN TYPE_COLLECTION_MAP THEN <<TYPE_COLLECTION_MAP[o.documentType]>>
  ELSE <<>>

\* A clean that is not carried out.
publishOver(existing, tmp, clean) == Merge(existing, tmp)

\* if ( clean ) fs.rmSync(dest, ...); fs.cpSync(tmp, dest, { force, recursive })
publish(existing, tmp, clean) == IF clean THEN tmp ELSE Merge(existing, tmp)

\* A failure path that skips the removal of the staging directory.
abandonKept(fs) == fs

\* finally { fs.rmSync(tmp, ...) } after an error inside the try block
abandon(fs) == [fs EXCEPT !.staging = @ - 1]

\* extractPack(src, dest, { nedb, yaml, documentType, collection, clean,
\* omitVolatile, transformEntry }) with folders and expandAdventures off and no
\* name transformer
extractPack(fs, src, dest, o) ==
  IF BadTarget(o.nedb, src) THEN Thrown(fs, "BadTarget")
  ELSE IF o.nedb /\ resolveCollection(o) = <<>> THEN Thrown(fs, "MissingType")
  ELSE
    LET existing == fs.dirs[dest].files
        \* fs.mkdirSync(dest), fs.mkdirSync(tmp)
        made == [fs EXCEPT !.dirs[dest].exists = TRUE, !.staging = @ + 1]
        \* new Datastore({ filename, autoload: true }) creates a missing datafile
        loaded == IF o.nedb /\ ~made.packs[src].exists
                    THEN [made EXCEPT !.dbfiles[src].exists = TRUE] ELSE made
        nedbRun == IF ~o.nedb THEN [result |-> "ok", files |-> EmptyFn]
                   ELSE IF made.packs[src].exists THEN [result |-> "EISDIR", files |-> EmptyFn]
                   ELSE extractNedb(made.dbfiles[src].records, existing, resolveCollection(o), o)
        \* new ClassicLevel(src, { createIfMissing: false }) opens only a store
        levelRun(first) ==
          IF first.result # "ok" THEN [result |-> first.result, files |-> EmptyFn]
          ELSE IF ~loaded.packs[src].exists THEN [result |-> "OpenFailed", files |-> EmptyFn]
          ELSE extractClassicLevel(loaded.packs[src].data, existing, o)
        settle(first, second) ==
          LET tmp == Merge(first.files, second.files)
              ok == second.result = "ok"
          IN [fs |-> IF ok
                       THEN [loaded EXCEPT !.dirs[dest].files = publish(existing, tmp, o.clean),
                                           !.staging = @ - 1]
                       ELSE abandon(loaded),
              result |-> second.result,
              ranNedb |-> o.nedb,
              nedbResult |-> IF o.nedb THEN first.result ELSE "",
              openedLevel |-> first.result = "ok",
              \* the store is opened when the pack is one; db.close() follows the
              \* loop over the entries
              opened |-> first.result = "ok" /\ loaded.packs[src].exists,
              closed |-> first.result = "ok" /\ loaded.packs[src].exists /\ ok,
              produced |-> IF ok THEN DOMAIN tmp ELSE {}]
    IN The({The({settle(first, second) : second \in {levelRun(first)}}) : first \in {nedbRun}})

(***************************************************************************)
(* Calls                                                                   *)
(***************************************************************************)
Done(op, c, out, ranBy) ==
  /\ dirs' = out.fs.dirs
  /\ packs' = out.fs.packs
  /\ dbfiles' = out.fs.dbfiles
  /\ staging' = out.fs.staging
  /\ last' = [op |-> op, src |-> c.src, dest |-> c.dest, o |-> c.o, result |-> out.result,
              ranNedb |-> out.ranNedb, nedbResult |-> out.nedbResult,
              openedLevel |-> out.openedLevel, opened |-> out.opened, closed |-> out.closed,
              produced |-> out.produced]
  /\ pre' = Fs
  /\ prev' = last
  /\ UNCHANGED <<codec, walk, build, stage>>
  /\ cli' = [cli EXCEPT !.run = ranBy]

\* one call of compilePack, with the order in which readdirSync lists src
CompilePack(calls) ==
  \E c \in calls : \E order \in Orders(DOMAIN dirs[c.src].files) :
    \E out \in {compilePack(Fs, c.src, c.dest, c.o, order)} : Done("compile", c, out, cli.run)

\* one call of extractPack
ExtractPack(calls) ==
  \E c \in calls : \E out \in {extractPack(Fs, c.src, c.dest, c.o)} : Done("extract", c, out, cli.run)

(***************************************************************************)
(* Source documents and packs the calls are exercised on                   *)
(***************************************************************************)
MaxFiles == 2

Json == ".json"

\* the _key a source file carries for the document at this chain of
\* collections and ids, written out as Foundry writes it
SourceKey(sublevels, ids) == <<Bang>> \o Join(sublevels, Dot) \o <<Bang>> \o Join(ids, Dot)

EffectE(sublevels, ids) ==
  [_id |-> <<"e">>, _key |-> SourceKey(Append(sublevels, <<"effects">>), Append(ids, <<"e">>))]

\* an Item embedded in Actor actorId, with every slot of the catalog
ItemFull(actorId, itemId) ==
  [_id |-> <<itemId>>, name |-> <<"Sword">>,
   _key |-> SourceKey(<<<<"actors">>, <<"items">>>>, <<<<actorId>>, <<itemId>>>>),
   effects |-> <<EffectE(<<<<"actors">>, <<"items">>>>, <<<<actorId>>, <<itemId>>>>)>>]

\* the Item of scenario A: no effects slot
ItemSparse(actorId, itemId) ==
  [_id |-> <<itemId>>, name |-> <<"Sword">>,
   _key |-> SourceKey(<<<<"actors">>, <<"items">>>>, <<<<actorId>>, <<itemId>>>>)]

ActorFull ==
  [_id |-> <<"a">>, _key |-> SourceKey(<<<<"actors">>>>, <<<<"a">>>>), name |-> <<"Hero">>,
   items |-> <<ItemFull("a", "i"), Put(ItemFull("a", "j"), "effects", <<>>)>>, effects |-> <<>>]

\* a second source of Actor a: an Item without effects slot, no effects slot of its own
ActorSparse ==
  [_id |-> <<"a">>, _key |-> SourceKey(<<<<"actors">>>>, <<<<"a">>>>), name |-> <<"Hero">>,
   items |-> <<ItemSparse("a", "i")>>]

ActorUnnamed ==
  [_id |-> <<"b">>, _key |-> SourceKey(<<<<"actors">>>>, <<<<"b">>>>),
   items |-> <<>>, effects |-> <<EffectE(<<<<"actors">>>>, <<<<"b">>>>)>>]

\* one file that holds the same embedded key twice
ActorTwice ==
  [_id |-> <<"b">>, _key |-> SourceKey(<<<<"actors">>>>, <<<<"b">>>>), name |-> <<"n", " ", "m">>,
   items |-> <<ItemSparse("b", "i"), ItemSparse("b", "i")>>, effects |-> <<>>]

\* an Item that shares name and _id with Actor a
ItemHero ==
  [_id |-> <<"a">>, _key |-> SourceKey(<<<<"items">>>>, <<<<"a">>>>), name |-> <<"Hero">>,
   effects |-> <<>>]

FolderF ==
  [_id |-> <<"f">>, _key |-> SourceKey(<<<<"folders">>>>, <<<<"f">>>>), name |-> <<"n", " ", "m">>]

\* a file without _key
Keyless == [_id |-> <<"b">>, name |-> <<"Zh">>, items |-> <<>>, effects |-> <<>>]

\* an embedded document without _key
ActorHalfKeyed ==
  [_id |-> <<"b">>, _key |-> SourceKey(<<<<"actors">>>>, <<<<"b">>>>), name |-> <<"Zh">>,
   items |-> <<[_id |-> <<"i">>, effects |-> <<>>]>>, effects |-> <<>>]

SourceDocs ==
  <<ActorFull, ActorSparse, ActorUnnamed, ActorTwice, ItemHero, Keyless, ActorHalfKeyed>>

FileStems == <<"f1", "f2", "f3", "f4">>

StemIndex(stem) == CHOOSE k \in 1..Len(FileStems) : FileStems[k] = stem

\* the directories of at most MaxFiles source files f1.json, f2.json, ...
\* that hold documents of docs
DirsOf(docs) ==
  {[n \in {<<FileStems[k], Json>> : k \in 1..Len(pick)} |-> docs[pick[StemIndex(n[1])]]] :
     pick \in {q \in UNION {[1..m -> 1..Len(docs)] : m \in 0..MaxFiles} :
                 \A i, j \in DOMAIN q : i <= j => q[i] <= q[j]}}

SourceDirs == DirsOf(SourceDocs)

\* what an earlier compile of other sources left in a store
StaleStore ==
  LET key(subs, ids) == SourceKey(subs, ids)
  IN (key(<<<<"actors">>>>, <<<<"b">>>>) :> [_id |-> <<"b">>, name |-> <<"n">>,
                                             items |-> <<<<"j">>>>, effects |-> <<>>])
     @@ (key(<<<<"actors">>, <<"items">>>>, <<<<"b">>, <<"j">>>>) :>
           [_id |-> <<"j">>, effects |-> <<>>])

PlainCompile == [nedb |-> FALSE, yaml |-> FALSE, recursive |-> FALSE, transformEntry |-> {}]
PlainExtract ==
  [nedb |-> FALSE, yaml |-> FALSE, documentType |-> "", collection |-> "", clean |-> FALSE,
   folders |-> FALSE, expandAdventures |-> FALSE, omitVolatile |-> FALSE, transformEntry |-> {},
   fault |-> FALSE]

Call(src, dest, o) == [src |-> src, dest |-> dest, o |-> o]

NoCall ==
  [op |-> "none", src |-> "", dest |-> "", o |-> EmptyFn, result |-> "", ranNedb |-> FALSE,
   nedbResult |-> "", openedLevel |-> FALSE, opened |-> FALSE, closed |-> FALSE, produced |-> {}]

\* no command has run in this process
NoRun ==
  [action |-> "", argv |-> EmptyFn, exitCode |-> 0, probe |-> "", code |-> "", opened |-> 0,
   fds |-> 0, invoked |-> "", thrown |-> ""]

\* nothing is configured, nothing holds the pack
IdleCli ==
  [config |-> [currentPackageId |-> "", currentPackageType |-> "", dataPath |-> ""],
   lock |-> "free", run |-> NoRun]

\* no value has been handed to a walker
IdleWalk ==
  [pc |-> "idle", value |-> [kind |-> "null", of |-> <<>>], collection |-> "", fn |-> "",
   sync |-> FALSE, visits |-> <<>>]

\* buildFolderMap has not been called
IdleBuild ==
  [pc |-> "idle", folders |-> <<>>, groupByType |-> FALSE, folderMap |-> EmptyFn, rest |-> <<>>,
   folder |-> <<>>, parent |-> <<>>, path |-> <<>>, paths |-> EmptyFn, rounds |-> 0]

\* no extractPack is under way
IdleStage ==
  [pc |-> "idle", call |-> [src |-> "", dest |-> "", o |-> EmptyFn], keys |-> <<>>,
   tmp |-> EmptyFn, reads |-> {}, result |-> ""]

IdleCodec == [pc |-> "idle", sublevels |-> <<>>, ids |-> <<>>, key |-> <<>>, collection |-> <<>>, id |-> <<>>]

(***************************************************************************)
(* Spec: source files are compiled, packs are extracted, the extracted     *)
(* files are compiled again                                                *)
(***************************************************************************)
Init ==
  /\ \E files \in SourceDirs :
       dirs = [d \in DirPaths |-> IF d = "src" THEN [exists |-> TRUE, files |-> files] ELSE NoDir]
  /\ \E data \in {EmptyFn, StaleStore} :
       packs = [path \in PackPaths |->
                  IF path = "p" /\ data # EmptyFn THEN [exists |-> TRUE, data |-> data] ELSE NoPack]
  /\ dbfiles = [path \in PackPaths |-> NoFile]
  /\ staging = 0
  /\ last = NoCall
  /\ pre = Fs
  /\ prev = NoCall
  /\ codec = IdleCodec
  /\ cli = IdleCli
  /\ walk = IdleWalk
  /\ build = IdleBuild
  /\ stage = IdleStage

CompileCalls ==
  {Call("src", "p", PlainCompile),
   Call("src", "p", [PlainCompile EXCEPT !.transformEntry = {<<"b">>}]),
   Call("out", "q", PlainCompile)}

ExtractCalls ==
  {Call("p", "out", PlainExtract)}

Compile == CompilePack(CompileCalls)
Extract == ExtractPack(ExtractCalls)

Next == Compile \/ Extract

Spec == Init /\ [][Next]_vars

(***************************************************************************)
(* SpecExtract: packs Foundry wrote are extracted over earlier extractions *)
(***************************************************************************)
Times == {<<"t1">>, <<"t2">>}
Types == {<<"npc">>, <<"pc">>}

Stats(time) == [modifiedTime |-> time, compendiumSource |-> <<"c">>]

\* Actor a as Foundry stores it: _stats on every document, an Item with an
\* effect of its own
ActorV(ta, ti, te, type) ==
  [_id |-> <<"a">>, _key |-> SourceKey(<<<<"actors">>>>, <<<<"a">>>>), name |-> <<"Hero">>,
   type |-> type, _stats |-> Stats(ta), effects |-> <<>>,
   items |-> <<[_id |-> <<"i">>, name |-> <<"Sword">>, _stats |-> Stats(ti),
                _key |-> SourceKey(<<<<"actors">>, <<"items">>>>, <<<<"a">>, <<"i">>>>),
                effects |-> <<[_id |-> <<"e">>, _stats |-> Stats(te),
                               _key |-> SourceKey(<<<<"actors">>, <<"items">>, <<"effects">>>>,
                                                  <<<<"a">>, <<"i">>, <<"e">>>>)]>>]>>]

ActorNow == ActorV(<<"t2">>, <<"t2">>, <<"t2">>, <<"npc">>)

\* the entries a sorted store holds for these documents
Stored(docs) == compileClassicLevel(EmptyFn, docs, {}).data

\* the store without the entry under key
Without(data, key) == [k \in (DOMAIN data) \ {key} |-> data[k]]

\* the packs extracted: one Actor, two Actors, an Actor whose Item is missing
StoredPacks ==
  {Stored(<<ActorNow>>), Stored(<<ActorNow, ActorUnnamed>>),
   Without(Stored(<<ActorNow>>), SourceKey(<<<<"actors">>, <<"items">>>>, <<<<"a">>, <<"i">>>>))}

HeroFile == <<"Hero", "_", "a", Json>>
OldFile == <<"old", Json>>

\* what earlier extractions left in the destination: nothing, the file of
\* Actor a with earlier time stamps, or the file of Actor a before an edit
\* beside the file of a document since deleted
ExtractedDirs ==
  {NoDir, [exists |-> TRUE, files |-> EmptyFn]}
  \cup {[exists |-> TRUE, files |-> (HeroFile :> ActorV(ta, ti, te, <<"npc">>))] :
          ta \in Times, ti \in Times, te \in Times}
  \cup {[exists |-> TRUE, files |-> (HeroFile :> ActorV(t, t, t, <<"pc">>)) @@ (OldFile :> FolderF)] :
          t \in Times}

\* the records of a datafile: Actor a without its _keys
LogRecords == <<stripKeys(ActorNow, <<"actors">>)>>

InitExtract ==
  /\ \E out \in ExtractedDirs :
       dirs = [d \in DirPaths |->
                 IF d = "out" THEN out
                 ELSE [exists |-> TRUE, files |-> (<<"f1", Json>> :> ActorNow)]]
  /\ \E data \in StoredPacks :
       packs = [path \in PackPaths |->
                  IF path = "p" THEN [exists |-> TRUE, data |-> data] ELSE NoPack]
  /\ dbfiles = [path \in PackPaths |->
                  IF path = "p.db" THEN [exists |-> TRUE, records |-> LogRecords] ELSE NoFile]
  /\ staging = 0
  /\ last = NoCall
  /\ pre = Fs
  /\ prev = NoCall
  /\ codec = IdleCodec
  /\ cli = IdleCli
  /\ walk = IdleWalk
  /\ build = IdleBuild
  /\ stage = IdleStage

NedbExtract == [PlainExtract EXCEPT !.nedb = TRUE]

LevelExtractCalls ==
  {Call("p", "out", PlainExtract),
   Call("p", "out", [PlainExtract EXCEPT !.clean = TRUE]),
   Call("p", "out", [PlainExtract EXCEPT !.omitVolatile = TRUE]),
   Call("p", "out", [PlainExtract EXCEPT !.transformEntry = {<<"b">>}]),
   Call("p", "out", [PlainExtract EXCEPT !.fault = TRUE])}

NedbExtractCalls ==
  {Call("p.db", "out", [NedbExtract EXCEPT !.documentType = "Actor"]),
   Call("p.db", "out", NedbExtract),
   Call("p.db", "out", [NedbExtract EXCEPT !.documentType = "Bogus"]),
   Call("p", "out", [NedbExtract EXCEPT !.documentType = "Actor"])}

NedbCompileCalls ==
  {Call("src", "q", [PlainCompile EXCEPT !.nedb = TRUE])}

ExtractLevel == ExtractPack(LevelExtractCalls)
ExtractNedb == ExtractPack(NedbExtractCalls)
CompileNedb == CompilePack(NedbCompileCalls)

NextExtract == ExtractLevel \/ ExtractNedb \/ CompileNedb

SpecExtract == InitExtract /\ [][NextExtract]_vars

(***************************************************************************)
(* SpecCodec: keys are built down a chain of documents and taken apart     *)
(***************************************************************************)
MaxParts == 2

\* collection names and ids: plain ones, and ones that hold a separator
KeyParts == {<<"a">>, <<"b">>, <<"a", "b">>, <<"a", Dot, "b">>, <<"a", Bang, "b">>}

\* the walker has reached a document under this chain of collections and ids
\* and builds its key
Encode ==
  /\ codec.pc = "idle"
  /\ \E n \in 1..MaxParts : \E sublevels \in [1..n -> KeyParts], ids \in [1..n -> KeyParts] :
       codec' = [pc |-> "encoded", sublevels |-> sublevels, ids |-> ids,
                 key |-> EncodeKey(sublevels, ids), collection |-> <<>>, id |-> <<>>]
  /\ UNCHANGED <<dirs, packs, dbfiles, staging, last, pre, prev, cli, walk, build, stage>>

\* the loop over the store takes the key apart
Decode ==
  /\ codec.pc = "encoded"
  /\ codec' = [codec EXCEPT !.pc = "decoded",
                            !.collection = DecodeKey(codec.key).collection,
                            !.id = DecodeKey(codec.key).id]
  /\ UNCHANGED <<dirs, packs, dbfiles, staging, last, pre, prev, cli, walk, build, stage>>

InitCodec ==
  /\ dirs = [d \in DirPaths |-> NoDir]
  /\ packs = [path \in PackPaths |-> NoPack]
  /\ dbfiles = [path \in PackPaths |-> NoFile]
  /\ staging = 0
  /\ last = NoCall
  /\ pre = Fs
  /\ prev = NoCall
  /\ codec = IdleCodec
  /\ cli = IdleCli
  /\ walk = IdleWalk
  /\ build = IdleBuild
  /\ stage = IdleStage

NextCodec == Encode \/ Decode

SpecCodec == InitCodec /\ [][NextCodec]_vars

(***************************************************************************)
(* What the claims speak of                                                *)
(***************************************************************************)
\* the collection a source document belongs to, read off its _key
CollectionOf(doc) == DecodeKey(doc["_key"]).collection

\* the names of the directory's files that a compile with options o reads:
\* readable by extension, carrying a _key, not discarded by the transformer
Compiled(files, o) ==
  {n \in DOMAIN files : /\ findSourceFiles(<<n>>, o.yaml, o.recursive) # <<>>
                        /\ Has(files[n], "_key")
                        /\ ~Discards(o.transformEntry, files[n])}

RECURSIVE KeysOf(_, _)
\* the _keys carried by a document and by the documents embedded in it
KeysOf(doc, collection) ==
  (IF Has(doc, "_key") THEN {doc["_key"]} ELSE {})
  \cup UNION {UNION {KeysOf(doc[f][k], <<f>>) : k \in 1..Len(doc[f])} :
                f \in SlotNames(collection) \cap DOMAIN doc}

\* the _keys carried by the documents walked in one file, in walking order
CarriedKeys(doc) ==
  LET walked == packDoc(doc, CollectionOf(doc))
      keys == [k \in 1..Len(walked) |-> walked[k].key]
  IN SelectSeq(keys, LAMBDA key : key # <<>>)

\* two of the documents walked in these files carry the same _key
SameKeyTwice(files, names) ==
  LET carried == [n \in names |-> CarriedKeys(files[n])]
  IN \/ \E n \in names : Len(carried[n]) # Cardinality(Range(carried[n]))
     \/ \E n1, n2 \in names : n1 # n2 /\ Range(carried[n1]) \cap Range(carried[n2]) # {}

RECURSIVE Filled(_, _)
\* the document with every slot of the catalog it lacks added, empty, at
\* every level
Filled(doc, collection) ==
  [f \in (DOMAIN doc) \cup SlotNames(collection) |->
     IF f \notin SlotNames(collection) THEN doc[f]
     ELSE IF f \notin DOMAIN doc THEN <<>>
     ELSE [k \in 1..Len(doc[f]) |-> Filled(doc[f][k], <<f>>)]]

\* the default name of the file a primary document is extracted to
DefaultName(doc) == LevelFileName(doc["_key"], doc, FALSE)

\* every reference of the store resolves, every entry is a primary document
\* or referenced by its parent, and every entry's _id ends its key
ValidPack(data) ==
  LET primary == {key \in DOMAIN data : ~Includes(DecodeKey(key).collection, Dot)}
      unpacked(key) == unpackDoc(data, data[key], DecodeKey(key).collection, <<>>, <<>>)
  IN /\ \A key \in primary : unpacked(key).ok
     /\ DOMAIN data = UNION {KeysOf(unpacked(key).doc, DecodeKey(key).collection) : key \in primary}
     /\ \A key \in DOMAIN data :
          LET ids == Split(DecodeKey(key).id, Dot) IN data[key]["_id"] = ids[Len(ids)]

\* the last call was this one and returned
Returned(call, op, src, dest, o) ==
  call.op = op /\ call.src = src /\ call.dest = dest /\ call.o = o /\ call.result = "ok"

(***************************************************************************)
(* C1                                                                      *)
(***************************************************************************)
\* src was compiled into p and p was then extracted into the empty out, both
\* with plain options, and every file of src carries a _key
C1_RoundTrip ==
  /\ Returned(last, "extract", "p", "out", PlainExtract)
  /\ Returned(prev, "compile", "src", "p", PlainCompile)
  /\ pre.dirs["out"].files = EmptyFn
  /\ \A n \in DOMAIN dirs["src"].files : Has(dirs["src"].files[n], "_key")

C2_RoundTrip ==
  /\ Returned(last, "compile", "out", "q", PlainCompile)
  /\ Returned(prev, "extract", "p", "out", PlainExtract)
  /\ prev.produced = DOMAIN dirs["out"].files
  /\ ~pre.packs["q"].exists
  /\ ValidPack(packs["p"].data)

\* C2 as stated: extract then compile of a valid pack gives a store with the
\* same key set and the same value under every key.
C2_PackEqualPack == C2_RoundTrip => packs["q"].data = packs["p"].data

(***************************************************************************)
(* C3                                                                      *)
(***************************************************************************)
\* C3: after a compile into a sorted store that returned, the store's key
\* set is the set of the _keys walked from the files that were not skipped:
\* every key the store held before and that is not among them is gone.
C3_KeysAreWalkedKeys ==
  (last.op = "compile" /\ last.result = "ok" /\ ~last.o.nedb) =>
    LET files == pre.dirs[last.src].files
    IN DOMAIN packs[last.dest].data =
         UNION {KeysOf(files[n], CollectionOf(files[n])) : n \in Compiled(files, last.o)}

\* a compile that returned, into a store that held keys the sources lack
C3_Witness ==
  /\ last.op = "compile" /\ last.result = "ok" /\ ~last.o.nedb
  /\ packs[last.dest].data # EmptyFn
  /\ (DOMAIN pre.packs[last.dest].data) \ (DOMAIN packs[last.dest].data) # {}

(***************************************************************************)
(* C4                                                                      *)
(***************************************************************************)
\* C4: a compile into a sorted store during which two walked documents carry
\* the same _key fails, and the store holds what it held before the call.
C4_DuplicateKeyWritesNothing ==
  (/\ last.op = "compile" /\ ~last.o.nedb
   /\ pre.dirs[last.src].exists
   /\ SameKeyTwice(pre.dirs[last.src].files, Compiled(pre.dirs[last.src].files, last.o))) =>
    /\ last.result # "ok"
    /\ packs[last.dest].data = pre.packs[last.dest].data

\* a compile that failed on a repeated key, into a store that held entries
C4_Witness ==
  /\ last.op = "compile" /\ last.result = "DuplicateKey"
  /\ SameKeyTwice(pre.dirs[last.src].files, Compiled(pre.dirs[last.src].files, last.o))
  /\ pre.packs[last.dest].data # EmptyFn
  /\ packs[last.dest].data = pre.packs[last.dest].data

(***************************************************************************)
(* C5                                                                      *)
(***************************************************************************)
\* the last call was an extract that passed the checks of its arguments and
\* then failed
ExtractFailed ==
  last.op = "extract" /\ last.result \notin {"ok", "BadTarget", "MissingType"}

\* C5 as stated: after an extract that failed before the staged tree was
\* complete, the destination is in its pre-operation state (same existence,
\* same files, same contents) and the staging directory no longer exists.
C5_DestUntouched ==
  ExtractFailed => dirs[last.dest] = pre.dirs[last.dest] /\ staging = 0

\* C5 amended: after an extract that failed before the staged tree was
\* complete, the destination exists (created empty when it did not exist),
\* holds the files it held before with the same contents, and the staging
\* directory no longer exists.
C5_DestFilesUntouched ==
  ExtractFailed =>
    /\ dirs[last.dest].exists
    /\ dirs[last.dest].files = pre.dirs[last.dest].files
    /\ staging = 0

\* an extract that failed on a missing entry or on a failed write, with a
\* destination that did not exist
C5_Witness ==
  /\ ExtractFailed
  /\ last.result \in {"NotFound", "IOError"}
  /\ ~pre.dirs[last.dest].exists
  /\ dirs[last.dest].exists

(***************************************************************************)
(* C6                                                                      *)
(***************************************************************************)
\* C6 as stated: with nedb=true, a src ending in .db and a resolvable
\* collection, only the log-store extraction runs: src is never opened as a
\* sorted store, and when the log-store extraction succeeds the call succeeds
\* and dest holds one file per record that the transformer did not discard.
C6_OnlyLogStoreRuns ==
  (/\ last.op = "extract" /\ last.o.nedb
   /\ ExtName(last.src) = ".db"
   /\ last.o.collection # "" \/ last.o.documentType \in DOMAIN TYPE_COLLECTION_MAP) =>
    /\ last.ranNedb
    /\ ~last.openedLevel
    /\ last.nedbResult = "ok" =>
         /\ last.result = "ok"
         /\ Cardinality(last.produced) =
              Cardinality({k \in 1..Len(pre.dbfiles[last.src].records) :
                             ~Discards(last.o.transformEntry, pre.dbfiles[last.src].records[k])})
         /\ last.produced \subseteq DOMAIN dirs[last.dest].files

(***************************************************************************)
(* C7                                                                      *)
(***************************************************************************)
\* C7: after an extract that returned, with clean=false every file that was
\* in dest and that this extraction did not produce is still there with the
\* same content; with clean=true the files of dest are the files produced.
C7_CleanDecidesLeftovers ==
  (last.op = "extract" /\ last.result = "ok") =>
    IF last.o.clean
      THEN DOMAIN dirs[last.dest].files = last.produced
      ELSE \A n \in (DOMAIN pre.dirs[last.dest].files) \ last.produced :
             /\ n \in DOMAIN dirs[last.dest].files
             /\ dirs[last.dest].files[n] = pre.dirs[last.dest].files[n]

\* an extract with clean=true that returned, over a destination that held a
\* file it did not produce
C7_Witness ==
  /\ last.op = "extract" /\ last.result = "ok" /\ last.o.clean
  /\ last.produced # {}
  /\ (DOMAIN pre.dirs[last.dest].files) \ last.produced # {}

(***************************************************************************)
(* C8                                                                      *)
(***************************************************************************)
RECURSIVE Scrub(_, _)
\* the document without the volatile fields of its _stats and of the _stats
\* of every embedded document
Scrub(doc, collection) ==
  [f \in DOMAIN doc |->
     IF f = "_stats" THEN [q \in (DOMAIN doc[f]) \ VOLATILE_FIELDS |-> doc[f][q]]
     ELSE IF f \in SlotNames(collection) THEN [k \in 1..Len(doc[f]) |-> Scrub(doc[f][k], <<f>>)]
     ELSE doc[f]]

\* the documents the last extract read from the store, by file name: what
\* it writes when the gate is off
Candidates ==
  extractClassicLevel(pre.packs[last.src].data, EmptyFn,
                      [last.o EXCEPT !.omitVolatile = FALSE]).files

\* C8 as stated: after an extract with omitVolatile=true, a file of dest whose
\* document differed from the extracted document only at volatile paths (of
\* the primary document or of any embedded document) holds what it held before.
C8_VolatileOnlyKeepsFile ==
  (last.op = "extract" /\ last.result = "ok" /\ last.o.omitVolatile /\ ~last.o.nedb) =>
    \A n \in last.produced \cap DOMAIN pre.dirs[last.dest].files :
      LET old == pre.dirs[last.dest].files[n]
          collection == CollectionOf(Candidates[n])
      IN Scrub(Candidates[n], collection) = Scrub(old, collection)
           => dirs[last.dest].files[n] = old

(***************************************************************************)
(* C10                                                                     *)
(***************************************************************************)
\* the last call had one of the three argument faults
ArgumentFault ==
  \/ last.op = "compile" /\ last.o.nedb /\ ExtName(last.dest) # ".db"
  \/ last.op = "extract" /\ last.o.nedb /\ ExtName(last.src) # ".db"
  \/ /\ last.op = "extract" /\ last.o.nedb
     /\ last.o.collection = "" /\ last.o.documentType \notin DOMAIN TYPE_COLLECTION_MAP

\* C10: a call with an argument fault fails, and no file or directory has
\* been created, removed or modified.
C10_ArgumentFaultNoEffect ==
  ArgumentFault =>
    /\ last.result \in {"BadTarget", "MissingType"}
    /\ Fs = pre

\* an extract without a resolvable collection has failed right after a compile
\* with a bad target, and the destination still does not exist
C10_Witness ==
  /\ ArgumentFault
  /\ last.op = "extract" /\ last.result = "MissingType"
  /\ ~dirs[last.dest].exists
  /\ prev.op = "compile" /\ prev.result = "BadTarget"

(***************************************************************************)
(* C9                                                                      *)
(***************************************************************************)
\* a part that holds neither separator
Plain(part) == ~Includes(part, Dot) /\ ~Includes(part, Bang)

PlainParts == {part \in KeyParts : Plain(part)}

\* the key was decoded to the lists of parts it was encoded from
DecodedAsEncoded ==
  /\ Split(codec.collection, Dot) = codec.sublevels
  /\ Split(codec.id, Dot) = codec.ids

\* C9 as stated: for lists of sublevel parts and id parts of equal length,
\* each part a non-empty string, splitting the key on "!" and then on "."
\* returns the original parts, and no other pair of lists has the same key.
C9_CodecRoundTrip ==
  codec.pc = "decoded" =>
    /\ DecodedAsEncoded
    /\ \A n \in 1..MaxParts : \A sublevels \in [1..n -> KeyParts], ids \in [1..n -> KeyParts] :
         EncodeKey(sublevels, ids) = codec.key => sublevels = codec.sublevels /\ ids = codec.ids

\* C9 amended: for lists of sublevel parts and id parts of equal length, each
\* part a non-empty string that holds neither "!" nor ".", splitting the key
\* on "!" and then on "." returns the original parts, and no other pair of
\* such lists has the same key.
C9_PlainCodecRoundTrip ==
  (/\ codec.pc = "decoded"
   /\ \A k \in DOMAIN codec.sublevels : Plain(codec.sublevels[k]) /\ Plain(codec.ids[k])) =>
    /\ DecodedAsEncoded
    /\ \A n \in 1..MaxParts : \A sublevels \in [1..n -> PlainParts], ids \in [1..n -> PlainParts] :
         EncodeKey(sublevels, ids) = codec.key => sublevels = codec.sublevels /\ ids = codec.ids

\* the key of an embedded document, of plain parts one of which is longer
\* than one symbol, has been decoded
C9_Witness ==
  /\ codec.pc = "decoded"
  /\ Len(codec.sublevels) >= 2
  /\ \A k \in DOMAIN codec.sublevels : Plain(codec.sublevels[k]) /\ Plain(codec.ids[k])
  /\ \E k \in DOMAIN codec.ids : Len(codec.ids[k]) > 1
  /\ DecodedAsEncoded

(***************************************************************************)
(* SpecBackends: the same source files are compiled into a sorted store    *)
(* and into a log-structured datafile                                      *)
(***************************************************************************)
\* an Actor whose Item carries the key of a primary Item
ActorMiskeyed ==
  [_id |-> <<"j">>, _key |-> SourceKey(<<<<"actors">>>>, <<<<"j">>>>), name |-> <<"n">>,
   items |-> <<[_id |-> <<"i">>, name |-> <<"Sword">>,
                _key |-> SourceKey(<<<<"items">>>>, <<<<"i">>>>)]>>]

\* a Scene with one Token whose delta (single arity) holds an effect
SceneToken ==
  [_id |-> <<"g">>, _key |-> SourceKey(<<<<"scenes">>>>, <<<<"g">>>>), name |-> <<"n">>,
   tokens |-> <<[_id |-> <<"e">>,
                 _key |-> SourceKey(<<<<"scenes">>, <<"tokens">>>>, <<<<"g">>, <<"e">>>>),
                 delta |-> <<[_id |-> <<"e">>,
                              _key |-> SourceKey(<<<<"scenes">>, <<"tokens">>, <<"delta">>>>,
                                                 <<<<"g">>, <<"e">>, <<"e">>>>),
                              effects |-> <<EffectE(<<<<"scenes">>, <<"tokens">>, <<"delta">>>>,
                                                    <<<<"g">>, <<"e">>, <<"e">>>>)>>]>>]>>]

BackendDocs == <<ActorFull, ActorSparse, ActorUnnamed, Keyless, FolderF, ActorMiskeyed, SceneToken>>

InitBackends ==
  /\ \E files \in DirsOf(BackendDocs) :
       dirs = [d \in DirPaths |-> IF d = "src" THEN [exists |-> TRUE, files |-> files] ELSE NoDir]
  /\ packs = [path \in PackPaths |-> NoPack]
  /\ \E file \in {NoFile, [exists |-> TRUE, records |-> LogRecords]} :
       dbfiles = [path \in PackPaths |-> IF path = "p.db" THEN file ELSE NoFile]
  /\ staging = 0
  /\ last = NoCall
  /\ pre = Fs
  /\ prev = NoCall
  /\ codec = IdleCodec
  /\ cli = IdleCli
  /\ walk = IdleWalk
  /\ build = IdleBuild
  /\ stage = IdleStage

Transformed(o) == [o EXCEPT !.transformEntry = {<<"b">>}]

CompileSorted ==
  CompilePack({Call("src", "p", PlainCompile), Call("src", "p", Transformed(PlainCompile))})

CompileLog ==
  CompilePack({Call("src", "p.db", [PlainCompile EXCEPT !.nedb = TRUE]),
               Call("src", "p.db", Transformed([PlainCompile EXCEPT !.nedb = TRUE]))})

NextBackends == CompileSorted \/ CompileLog

SpecBackends == InitBackends /\ [][NextBackends]_vars

(***************************************************************************)
(* SpecLayout: packs with Folders and Adventures are extracted flat, by    *)
(* folder, and with the Adventures expanded                                *)
(***************************************************************************)
\* Folder g inside Folder f
FolderG ==
  [_id |-> <<"g">>, _key |-> SourceKey(<<<<"folders">>>>, <<<<"g">>>>), name |-> <<"Zh">>,
   folder |-> <<"f">>]

\* Folder e without name inside Folder g
FolderE ==
  [_id |-> <<"e">>, _key |-> SourceKey(<<<<"folders">>>>, <<<<"e">>>>), folder |-> <<"g">>]

\* a document of an Adventure: embedded documents carry no _key
Entry(id, name, folder) ==
  LET doc == [_id |-> id, folder |-> folder]
  IN IF name = <<>> THEN doc ELSE Put(doc, "name", name)

\* an Adventure whose documents all lie in its Folder of Actors
AdvTidy ==
  [_id |-> <<"v">>, name |-> <<"n", " ", "m">>, folder |-> <<"g">>,
   folders |-> <<Put(Entry(<<"e">>, <<"Zh">>, <<>>), "type", <<"Actor">>)>>,
   actors |-> <<Entry(<<"a">>, <<"Hero">>, <<"e">>), Entry(<<"b">>, <<"Sword">>, <<"e">>)>>]

\* an Adventure whose documents lie in no Folder: an Actor and an Item of
\* the same name and _id, two Combats (a Combat has no name)
AdvLoose ==
  [_id |-> <<"v">>, name |-> <<"Zh">>,
   actors |-> <<Entry(<<"a">>, <<"Hero">>, <<>>)>>,
   items |-> <<Entry(<<"a">>, <<"Hero">>, <<>>)>>,
   combats |-> <<Entry(<<"i">>, <<>>, <<>>), Entry(<<"j">>, <<>>, <<>>)>>]

\* an Adventure without name that holds one Combat
AdvBare == [_id |-> <<"v">>, combats |-> <<Entry(<<"b">>, <<>>, <<>>)>>]

AdventureKey == SourceKey(<<<<"adventures">>>>, <<<<"v">>>>)

\* the packs extracted: documents in nested Folders, with no Adventure and
\* with each of the Adventures
LayoutPacks ==
  LET docs == Stored(<<FolderF, FolderG, FolderE, Put(ActorSparse, "folder", <<"g">>),
                       Put(ActorUnnamed, "folder", <<"f">>), Put(ItemHero, "folder", <<"n">>)>>)
  IN {docs, docs @@ (AdventureKey :> AdvTidy), docs @@ (AdventureKey :> AdvLoose),
      (AdventureKey :> AdvLoose), (AdventureKey :> AdvBare)}

InitLayout ==
  /\ dirs = [d \in DirPaths |-> NoDir]
  /\ \E data \in LayoutPacks :
       packs = [path \in PackPaths |-> IF path = "p" THEN [exists |-> TRUE, data |-> data] ELSE NoPack]
  /\ dbfiles = [path \in PackPaths |-> NoFile]
  /\ staging = 0
  /\ last = NoCall
  /\ pre = Fs
  /\ prev = NoCall
  /\ codec = IdleCodec
  /\ cli = IdleCli
  /\ walk = IdleWalk
  /\ build = IdleBuild
  /\ stage = IdleStage

FlatCalls ==
  {Call("p", "out", [PlainExtract EXCEPT !.expandAdventures = expand, !.transformEntry = t]) :
     expand \in BOOLEAN, t \in {{}, {<<"b">>}}}

ExtractFlat == ExtractPack(FlatCalls)

ExtractFolders ==
  ExtractPack({Call(c.src, c.dest, [c.o EXCEPT !.folders = TRUE, !.clean = TRUE]) : c \in FlatCalls})

NextLayout == ExtractFlat \/ ExtractFolders

SpecLayout == InitLayout /\ [][NextLayout]_vars

(***************************************************************************)
(* SpecTransform: every operation is run without an entry transformer and  *)
(* with one that returns false for the documents of _id b                  *)
(***************************************************************************)
\* the files an earlier extract with expandAdventures wrote for AdvTidy
\* without its Folder: the Adventure and its two Actors
ExpandedSource ==
  extractClassicLevel((AdventureKey :> Del(AdvTidy, "folders")), EmptyFn,
                      [PlainExtract EXCEPT !.expandAdventures = TRUE]).files

InitTransform ==
  /\ \E files \in {(<<"f1", Json>> :> ActorFull) @@ (<<"f2", Json>> :> ActorUnnamed),
                    (<<"f1", Json>> :> ActorFull) @@ (<<"f2", Json>> :> ActorHalfKeyed),
                    (<<"f1", Json>> :> ActorUnnamed), ExpandedSource} :
       dirs = [d \in DirPaths |-> IF d = "src" THEN [exists |-> TRUE, files |-> files] ELSE NoDir]
  /\ packs = [path \in PackPaths |->
                IF path = "p"
                  THEN [exists |-> TRUE,
                        data |-> Stored(<<ActorUnnamed>>) @@ (AdventureKey :> AdvTidy)]
                  ELSE NoPack]
  /\ dbfiles = [path \in PackPaths |->
                  IF path = "p.db"
                    THEN [exists |-> TRUE,
                          records |-> LogRecords \o <<stripKeys(ActorUnnamed, <<"actors">>)>>]
                    ELSE NoFile]
  /\ staging = 0
  /\ last = NoCall
  /\ pre = Fs
  /\ prev = NoCall
  /\ codec = IdleCodec
  /\ cli = IdleCli
  /\ walk = IdleWalk
  /\ build = IdleBuild
  /\ stage = IdleStage

ExtractLog ==
  ExtractPack({Call("p.db", "out", [PlainExtract EXCEPT !.nedb = TRUE, !.documentType = "Actor",
                                                        !.transformEntry = t]) :
                 t \in {{}, {<<"b">>}}})

ExtractClean ==
  ExtractPack({Call(c.src, c.dest, [c.o EXCEPT !.clean = TRUE]) : c \in FlatCalls})

NextTransform == CompileSorted \/ CompileLog \/ ExtractClean \/ ExtractLog

SpecTransform == InitTransform /\ [][NextTransform]_vars

(***************************************************************************)
(* The package command: pack and unpack                                    *)
(***************************************************************************)
\* fs.openSync(<pack>/LOCK, "w"): a descriptor, or the code of the error.
\* lock is what the system answers for an existing pack directory: "free",
\* or the error code; without the directory the answer is ENOENT.
openSync(fs, pack, lock) ==
  IF ~fs.packs[pack].exists THEN [fd |-> 0, code |-> "ENOENT"]
  ELSE IF lock = "free" THEN [fd |-> 1, code |-> ""]
  ELSE [fd |-> 0, code |-> lock]

\* a probe that takes every failure to open for an absent file
isFileLockedLenient(fs, pack, lock) ==
  The({[value |-> "unlocked", code |-> r.code, opened |-> r.fd, fds |-> 0] :
         r \in {openSync(fs, pack, lock)}})

\* isFileLocked(filepath): value is the boolean returned, or "raised"; fds
\* counts the descriptors left open
isFileLocked(fs, pack, lock) ==
  The({IF r.code = "" THEN [value |-> "unlocked", code |-> "", opened |-> 1, fds |-> r.fd - 1]
       ELSE IF r.code = "EBUSY" THEN [value |-> "locked", code |-> r.code, opened |-> 0, fds |-> 0]
       ELSE IF r.code = "ENOENT" THEN [value |-> "unlocked", code |-> r.code, opened |-> 0, fds |-> 0]
       ELSE [value |-> "raised", code |-> r.code, opened |-> 0, fds |-> 0] :
         r \in {openSync(fs, pack, lock)}})

NoPaths == [source |-> "", pack |-> "", thrown |-> ""]

\* determinePaths(argv, operation) with the dataPath not configured: the
\* paths come from --in and --out (argv.directories) or not at all.  With the
\* directories given and no package type, currentPackageType.toLowerCase()
\* throws.
determinePaths(config, argv, operation) ==
  LET usingDefault == ~argv.directories
      currentPackageType == IF argv.type # "" THEN argv.type ELSE config.currentPackageType
  IN IF usingDefault /\ (config.currentPackageId = "" \/ currentPackageType = "") THEN NoPaths
     ELSE IF usingDefault /\ config.dataPath = "" THEN NoPaths
     ELSE IF currentPackageType = "" THEN [NoPaths EXCEPT !.thrown = "TypeError"]
     ELSE IF argv.compendiumName = "" THEN NoPaths
     ELSE [source |-> IF operation = "pack" THEN "src" ELSE "out",
           pack |-> IF argv.nedb THEN argv.compendiumName \o ".db" ELSE argv.compendiumName,
           thrown |-> ""]

\* determineDocumentType(packFile, argv): the type given, or that of the
\* collection the pack is named after; without either the manifests are
\* looked up, and with no dataPath game is undefined and game.packages throws
determineDocumentType(config, packFile, argv) ==
  IF argv.compendiumType # "" THEN [type |-> argv.compendiumType, thrown |-> ""]
  ELSE IF \E t \in DOMAIN TYPE_COLLECTION_MAP : packFile = TYPE_COLLECTION_MAP[t] \o ".db"
    THEN [type |-> CHOOSE t \in DOMAIN TYPE_COLLECTION_MAP : packFile = TYPE_COLLECTION_MAP[t] \o ".db",
          thrown |-> ""]
  ELSE IF config.dataPath = "" THEN [type |-> "", thrown |-> "TypeError"]
  ELSE [type |-> "", thrown |-> ""]

\* what a handler did: the record of the run, and the call of the library
\* with its outcome when the library was called
HandlerRun(action, argv, exitCode, probe, invoked, thrown, call, out) ==
  [run |-> [action |-> action, argv |-> argv, exitCode |-> exitCode, probe |-> probe.value,
            code |-> probe.code, opened |-> probe.opened, fds |-> probe.fds, invoked |-> invoked,
            thrown |-> thrown],
   called |-> invoked # "", call |-> call, out |-> out]

NoProbe == [value |-> "", code |-> "", opened |-> 0, fds |-> 0]

\* handlePack(argv); order is the order in which compilePack lists the source
handlePack(fs, c, argv, order) ==
  LET paths == determinePaths(c.config, argv, "pack")
      stopped(exitCode, pr, thrown) ==
        HandlerRun("pack", argv, exitCode, pr, "", thrown, NoCall, Thrown(fs, ""))
      call == Call(paths.source, paths.pack,
                   [PlainCompile EXCEPT !.nedb = argv.nedb, !.yaml = argv.yaml])
  IN IF paths.thrown # "" THEN stopped(0, NoProbe, paths.thrown)
     ELSE IF paths.source = "" \/ paths.pack = "" THEN stopped(1, NoProbe, "")
     ELSE The({IF pr.value = "raised" THEN stopped(0, pr, pr.code)
               ELSE IF pr.value = "locked" THEN stopped(1, pr, "")
               ELSE The({HandlerRun("pack", argv, IF out.result = "ok" THEN 0 ELSE 1, pr, "compilePack",
                             "", call, out) :
                           out \in {compilePack(fs, call.src, call.dest, call.o, order)}}) :
                 pr \in {IF argv.nedb THEN NoProbe ELSE isFileLocked(fs, paths.pack, c.lock)}})

\* handleUnpack(argv)
handleUnpack(fs, c, argv) ==
  LET paths == determinePaths(c.config, argv, "unpack")
      stopped(exitCode, pr, thrown) ==
        HandlerRun("unpack", argv, exitCode, pr, "", thrown, NoCall, Thrown(fs, ""))
      documentType == IF argv.nedb THEN determineDocumentType(c.config, paths.pack, argv)
                      ELSE [type |-> "", thrown |-> ""]
      call == Call(paths.pack, paths.source,
                   [PlainExtract EXCEPT !.nedb = argv.nedb, !.yaml = argv.yaml,
                                        !.documentType = documentType.type])
  IN IF paths.thrown # "" THEN stopped(0, NoProbe, paths.thrown)
     ELSE IF paths.source = "" \/ paths.pack = "" THEN stopped(1, NoProbe, "")
     ELSE IF documentType.thrown # "" THEN stopped(0, NoProbe, documentType.thrown)
     ELSE IF argv.nedb /\ documentType.type = "" THEN stopped(1, NoProbe, "")
     ELSE The({IF pr.value = "raised" THEN stopped(0, pr, pr.code)
               ELSE IF pr.value = "locked" THEN stopped(1, pr, "")
               ELSE The({HandlerRun("unpack", argv, IF out.result = "ok" THEN 0 ELSE 1, pr, "extractPack",
                             "", call, out) :
                           out \in {extractPack(fs, call.src, call.dest, call.o)}}) :
                 pr \in {IF argv.nedb THEN NoProbe ELSE isFileLocked(fs, paths.pack, c.lock)}})

\* the handler has returned: the files are as the library left them
Handled(ran) ==
  IF ran.called
    THEN Done(IF ran.run.action = "pack" THEN "compile" ELSE "extract", ran.call, ran.out, ran.run)
    ELSE /\ cli' = [cli EXCEPT !.run = ran.run]
         /\ UNCHANGED <<dirs, packs, dbfiles, staging, last, pre, prev, codec, walk, build, stage>>

(***************************************************************************)
(* SpecCli: the package command packs and unpacks the compendium p while   *)
(* another process takes and releases the pack                             *)
(***************************************************************************)
\* the command lines: `-n p --in <dir> --out <dir>`, then with `--nedb -t Actor`,
\* with `--nedb`, without the name, and without the directories
Argvs ==
  LET argv == [directories |-> TRUE, compendiumName |-> "p", compendiumType |-> "", nedb |-> FALSE,
               yaml |-> FALSE, type |-> ""]
  IN {argv, [argv EXCEPT !.nedb = TRUE, !.compendiumType = "Actor"], [argv EXCEPT !.nedb = TRUE],
      [argv EXCEPT !.compendiumName = ""], [argv EXCEPT !.directories = FALSE]}

LockAnswers == {"free", "EBUSY", "EACCES"}

InitCli ==
  /\ dirs = [d \in DirPaths |->
               IF d = "src" THEN [exists |-> TRUE, files |-> (<<"f1", Json>> :> ActorSparse)]
               ELSE NoDir]
  /\ \E pack \in {NoPack, [exists |-> TRUE, data |-> Stored(<<ActorUnnamed>>)]} :
       /\ packs = [path \in PackPaths |-> IF path = "p" THEN pack ELSE NoPack]
       /\ \E lock \in LockAnswers, type \in {"", "Module"} :
            /\ ~pack.exists => lock = "free"
            /\ cli = [IdleCli EXCEPT !.lock = lock, !.config.currentPackageType = type]
  /\ walk = IdleWalk
  /\ build = IdleBuild
  /\ stage = IdleStage
  /\ dbfiles = [path \in PackPaths |->
                  IF path = "p.db" THEN [exists |-> TRUE, records |-> LogRecords] ELSE NoFile]
  /\ staging = 0
  /\ last = NoCall
  /\ pre = Fs
  /\ prev = NoCall
  /\ codec = IdleCodec

\* `package pack` is run
HandlePack ==
  \E argv \in Argvs : \E order \in Orders(DOMAIN dirs["src"].files) :
    \E ran \in {handlePack(Fs, cli, argv, order)} : Handled(ran)

\* `package unpack` is run
HandleUnpack ==
  \E argv \in Argvs : \E ran \in {handleUnpack(Fs, cli, argv)} : Handled(ran)

\* another process opens or closes the pack, or the rights on LOCK change
LockChanges ==
  /\ packs["p"].exists
  /\ \E lock \in LockAnswers \ {cli.lock} : cli' = [cli EXCEPT !.lock = lock]
  /\ UNCHANGED <<dirs, packs, dbfiles, staging, last, pre, prev, codec, walk, build, stage>>

NextCli == HandlePack \/ HandleUnpack \/ LockChanges

SpecCli == InitCli /\ [][NextCli]_vars

(***************************************************************************)
(* C11: source files without _key                                          *)
(***************************************************************************)
\* the files of a directory that carry a _key
Keyed(files) == [n \in {m \in DOMAIN files : Field(files[m], "_key") # <<>>} |-> files[n]]

\* C11: a compile of a directory that holds files without _key ends as a
\* compile of the directory without these files ends, in both backends: with
\* the same result and the same packs.
C11_KeylessSkipped ==
  (last.op = "compile" /\ pre.dirs[last.src].exists) =>
    LET without == [pre EXCEPT !.dirs[last.src].files = Keyed(@)]
    IN \E order \in Orders(DOMAIN without.dirs[last.src].files) :
         LET out == compilePack(without, last.src, last.dest, last.o, order)
         IN /\ out.result = last.result
            /\ out.fs.packs = packs
            /\ out.fs.dbfiles = dbfiles

\* a log-structured pack compiled from a file without _key beside one with _key
C11_Witness ==
  /\ last.op = "compile" /\ last.o.nedb /\ last.result = "ok"
  /\ \E n, m \in DOMAIN pre.dirs[last.src].files :
       /\ pre.dirs[last.src].files[n] = Keyless
       /\ Field(pre.dirs[last.src].files[m], "_key") # <<>>
  /\ Len(dbfiles[last.dest].records) = 1

(***************************************************************************)
(* C12: what a log-structured compile holds                                *)
(***************************************************************************)
\* the files of a compile that are neither skipped nor discarded
Packed(files, o) ==
  {n \in DOMAIN files :
     /\ Field(files[n], "_key") # <<>>
     /\ ~Discards(o.transformEntry, files[n])
     /\ o.nedb => ~StartsWith(files[n]["_key"], <<Bang, "folders">>)}

RECURSIVE Inline(_)
\* the document with its embedded documents in place, without any _key
Inline(doc) ==
  [f \in (DOMAIN doc) \ {"_key"} |->
     IF f \in {"items", "effects", "tokens", "delta"}
       THEN [k \in 1..Len(doc[f]) |-> Inline(doc[f][k])]
       ELSE doc[f]]

\* C12: after a successful log-structured compile the datafile holds exactly
\* one record per source file that has a _key, is no Folder and was not
\* discarded: the document with its embedded documents inline.  It holds no
\* record of its own for an embedded document or a Folder, and nothing of the
\* datafile that was there before.
C12_OneRecordPerPrimary ==
  (last.op = "compile" /\ last.o.nedb /\ last.result = "ok") =>
    LET files == pre.dirs[last.src].files
        packed == Packed(files, last.o)
        records == dbfiles[last.dest].records
    IN /\ dbfiles[last.dest].exists
       /\ Len(records) = Cardinality(packed)
       /\ \A n \in packed : \E k \in 1..Len(records) : records[k] = Inline(files[n])
       /\ \A k \in 1..Len(records) : \E n \in packed : records[k] = Inline(files[n])

\* a datafile of an earlier run replaced by the record of an Actor with
\* embedded Items, compiled beside a Folder
C12_Witness ==
  /\ last.op = "compile" /\ last.o.nedb /\ last.result = "ok"
  /\ pre.dbfiles[last.dest].exists /\ pre.dbfiles[last.dest].records = LogRecords
  /\ \E n, m \in DOMAIN pre.dirs[last.src].files :
       /\ pre.dirs[last.src].files[n] = FolderF
       /\ pre.dirs[last.src].files[m] = ActorFull
  /\ dbfiles[last.dest].records = <<Inline(ActorFull)>>

(***************************************************************************)
(* C13: entries the transformer discards                                   *)
(***************************************************************************)
\* the documents embedded in an Adventure, over all its collections
AdventureEntries(doc) ==
  UNION {{Field(doc, ADVENTURE_DOCS[i])[k] : k \in 1..Len(Field(doc, ADVENTURE_DOCS[i]))} :
           i \in 1..Len(ADVENTURE_DOCS)}

\* the files of a directory whose document the transformer discards / keeps
Discarded(files, t) == {n \in DOMAIN Keyed(files) : Field(files[n], "_id") \in t}
Kept(files, t) == {n \in DOMAIN Keyed(files) : Field(files[n], "_id") \notin t}

\* C13: an entry for which transformEntry returns false leaves no trace, and
\* every other entry is processed.  After a compile that returned, the pack
\* holds no key (sorted store) and no record (datafile) of a discarded file,
\* also when an earlier compile had stored it, and holds those of the other
\* files.  An extract writes no file that holds a discarded entry and one file
\* for every other entry; an expanded Adventure has neither a file nor a
\* path for a discarded embedded document, and one of each for every other.
C13_DiscardedLeavesNoTrace ==
  LET t == last.o.transformEntry
  IN /\ (last.op = "compile" /\ last.result = "ok" /\ ~last.o.nedb) =>
          LET src == pre.dirs[last.src].files
              keptKeys == UNION {Range(CarriedKeys(src[n])) : n \in Kept(src, t)}
          IN /\ keptKeys \subseteq DOMAIN packs[last.dest].data
             /\ \A n \in Discarded(src, t) :
                  Range(CarriedKeys(src[n])) \cap DOMAIN packs[last.dest].data \subseteq keptKeys
     /\ (last.op = "compile" /\ last.result = "ok" /\ last.o.nedb) =>
          LET src == pre.dirs[last.src].files
              ids == {Field(dbfiles[last.dest].records[k], "_id") :
                        k \in 1..Len(dbfiles[last.dest].records)}
          IN ids = {Field(src[n], "_id") : n \in Kept(src, t)}
     /\ (last.op = "extract" /\ last.result = "ok") =>
          LET data == pre.packs[last.src].data
              primary == {key \in DOMAIN data : ~Includes(DecodeKey(key).collection, Dot)}
              files == dirs[last.dest].files
              written(doc) == \E n \in last.produced : Field(files[n], "_id") = Field(doc, "_id")
          IN \A key \in primary :
               /\ written(data[key]) <=> Field(data[key], "_id") \notin t
               /\ (last.o.expandAdventures /\ StartsWith(key, <<Bang, "adventures">>)
                     /\ Field(data[key], "_id") \notin t) =>
                    \E n \in last.produced :
                      /\ Field(files[n], "_key") = key
                      /\ \A c \in Range(ADVENTURE_DOCS) :
                           Len(files[n][c])
                             = Len(SelectSeq(Field(data[key], c),
                                             LAMBDA e : Field(e, "_id") \notin t))
                      /\ \A e \in AdventureEntries(data[key]) :
                           written(e) <=> Field(e, "_id") \notin t
     /\ (last.op = "extract" /\ last.ranNedb /\ last.nedbResult = "ok") =>
          LET records == pre.dbfiles[last.src].records
          IN \A staged \in {extractNedb(records, pre.dirs[last.dest].files,
                                        resolveCollection(last.o), last.o).files} :
               {Field(staged[n], "_id") : n \in DOMAIN staged}
                 = {Field(records[k], "_id") : k \in 1..Len(records)} \ t

\* an Adventure expanded under a transformer that discards one of its two Actors
C13_Witness ==
  /\ last.op = "extract" /\ last.result = "ok" /\ last.o.expandAdventures
  /\ last.o.transformEntry = {<<"b">>}
  /\ AdventureKey \in DOMAIN pre.packs[last.src].data
  /\ \E n \in last.produced :
       /\ Field(dirs[last.dest].files[n], "_key") = AdventureKey
       /\ Len(dirs[last.dest].files[n]["actors"]) = 1

(***************************************************************************)
(* C14: the characters of derived file names                               *)
(***************************************************************************)
\* the components of a path, the extension left off
Components(path) == Range(Split(SubSeq(path, 1, Len(path) - 1), "/"))

\* only letters, digits, underscores and characters of U+0410..U+044F
Safe(component) == \A k \in 1..Len(component) : component[k] \in SafeSymbols \cup {Underscore}

\* the primary documents of a store, keyed
Primary(data) ==
  {Put(data[key], "_key", key) : key \in {k \in DOMAIN data : ~Includes(DecodeKey(k).collection, Dot)}}

\* C14 as stated: every component of every path an extract derives is safe,
\* for documents with and without a name.
C14_AllComponentsSafe ==
  (last.op = "extract" /\ last.result = "ok") =>
    \A n \in last.produced : \A component \in Components(n) : Safe(component)

\* C14, amended: every component an extract derives is safe, but for the file
\* name of a primary document without name, which is its _key; and the name
\* extractNedb derives for a document with a name is safe.
C14_NamedComponentsSafe ==
  (last.op = "extract" /\ last.result = "ok") =>
    \A primary \in {Primary(pre.packs[last.src].data)} :
      /\ \A n \in last.produced : \A component \in Components(n) :
           \/ Safe(component)
           \/ /\ component = basename(SubSeq(n, 1, Len(n) - 1))
              /\ \E doc \in primary : Field(doc, "name") = <<>> /\ component = doc["_key"]
      /\ \A doc \in primary :
           Field(doc, "name") # <<>> =>
             \A component \in Components(NedbFileName(doc, last.o.yaml)) : Safe(component)

\* an extract by folder of a Folder whose name holds a space, and of an Actor
\* without name
C14_Witness ==
  /\ last.op = "extract" /\ last.result = "ok" /\ last.o.folders
  /\ <<"n", "_", "m", "_", "f", "/", "_", "Folder", Json>> \in last.produced
  /\ \E n \in last.produced : \E component \in Components(n) : ~Safe(component)

(***************************************************************************)
(* C15: the layout of an extract by folder                                 *)
(***************************************************************************)
\* the Folder documents among the primary documents of a store
FolderDocs(primary) == {doc \in primary : CollectionOf(doc) = <<"folders">>}

RECURSIVE FolderPath(_, _)
\* path(F): the directory names safe(name)_id from F's root ancestor down to F
FolderPath(folderDocs, F) ==
  LET own == IF Field(F, "name") # <<>>
               THEN getSafeFilename(F["name"]) \o <<Underscore>> \o F["_id"]
               ELSE F["_id"]
      parents == {G \in folderDocs : G["_id"] = Field(F, "folder")}
  IN IF parents = {} THEN own
     ELSE pathJoin(FolderPath(folderDocs, The(parents)), own)

\* where the claim places a primary document in an extract by folder
Place(folderDocs, doc, yaml) ==
  LET parents == {F \in folderDocs : F["_id"] = Field(doc, "folder")}
      name == LevelFileName(doc["_key"], doc, yaml)
  IN IF doc \in folderDocs
       THEN pathJoin(FolderPath(folderDocs, doc), <<Underscore, "Folder", Ext(yaml)>>)
     ELSE IF parents = {} THEN name
     ELSE pathJoin(FolderPath(folderDocs, The(parents)), name)

\* where an expanded Adventure is written in an extract by folder
AdventurePlace(folderDocs, doc, yaml) ==
  LET parents == {F \in folderDocs : F["_id"] = Field(doc, "folder")}
      own == pathJoin(getSafeFilename(doc["name"]) \o <<Underscore>> \o doc["_id"],
                      <<Underscore, "Adventure", Ext(yaml)>>)
  IN IF parents = {} THEN own ELSE pathJoin(FolderPath(folderDocs, The(parents)), own)

\* the last call was a sorted-store extract by folder that returned
FoldersExtract == last.op = "extract" /\ last.result = "ok" /\ last.o.folders /\ ~last.o.nedb

\* the primary documents of the extracted store that the transformer keeps
KeptPrimary == {doc \in Primary(pre.packs[last.src].data) : doc["_id"] \notin last.o.transformEntry}

\* C15 as stated: after an extract by folder every Folder F is the file
\* path(F)/_Folder.<ext>, every other primary document in F is the file
\* path(F)/<default file name>, and a document in no Folder of the pack is at
\* the root of the output directory; Adventures are not set apart.
C15_FoldersLayout ==
  FoldersExtract =>
    \A primary \in {KeptPrimary} : \A folderDocs \in {FolderDocs(Primary(pre.packs[last.src].data))} :
      \A doc \in primary :
        \A place \in {Place(folderDocs, doc, last.o.yaml)} :
          /\ place \in last.produced
          /\ dirs[last.dest].files[place]["_id"] = doc["_id"]

\* C15, amended: the same for every primary document but an Adventure that
\* is expanded, which is the file path(F)/<safe(name)_id>/_Adventure.<ext>;
\* when no Adventure is expanded the extract writes no other file.
C15_FoldersLayoutButExpanded ==
  FoldersExtract =>
    \A primary \in {KeptPrimary} : \A folderDocs \in {FolderDocs(Primary(pre.packs[last.src].data))} :
      LET expanded(doc) == last.o.expandAdventures /\ CollectionOf(doc) = <<"adventures">>
      IN /\ \A doc \in primary :
              \A place \in {IF expanded(doc) THEN AdventurePlace(folderDocs, doc, last.o.yaml)
                                             ELSE Place(folderDocs, doc, last.o.yaml)} :
                /\ place \in last.produced
                /\ dirs[last.dest].files[place]["_id"] = doc["_id"]
         /\ (\A doc \in primary : ~expanded(doc)) =>
              last.produced = {Place(folderDocs, doc, last.o.yaml) : doc \in primary}

\* an extract by folder wrote a Folder two levels deep, a document inside it, a
\* document of a folder that the pack lacks at the root, and an Adventure left whole
C15_Witness ==
  /\ FoldersExtract /\ ~last.o.expandAdventures
  /\ {<<"n", "_", "m", "_", "f", "/", "Zh", "_", "g", "/", "_", "Folder", Json>>,
      <<"n", "_", "m", "_", "f", "/", "Zh", "_", "g", "/", "Hero", "_", "a", Json>>,
      <<"n", "_", "m", "_", "f", "/", "Zh", "_", "g", "/", "e", "/", "_", "Folder", Json>>,
      <<"Hero", "_", "a", Json>>,
      <<"n", "_", "m", "_", "f", "/", "Zh", "_", "g", "/", "n", "_", "m", "_", "v", Json>>}
       \subseteq last.produced

(***************************************************************************)
(* C16: the files of an expanded Adventure                                 *)
(***************************************************************************)
\* the Adventures among the primary documents of a store
Adventures(data) == {doc \in Primary(data) : CollectionOf(doc) = <<"adventures">>}

\* the directory of a file, and a path listed by the file resolved against it
Beside(file, listed) ==
  LET parts == Split(file, "/")
  IN pathJoin(Join(SubSeq(parts, 1, Len(parts) - 1), "/"), listed)

\* the places of the embedded documents of an Adventure: collection and index
Slots(doc) ==
  UNION {{<<ADVENTURE_DOCS[i], k>> : k \in 1..Len(Field(doc, ADVENTURE_DOCS[i]))} :
           i \in 1..Len(ADVENTURE_DOCS)}

\* the last call was a sorted-store extract with the Adventures expanded and
\* no transformer, and it returned
ExpandedExtract ==
  /\ last.op = "extract" /\ last.result = "ok" /\ ~last.o.nedb
  /\ last.o.expandAdventures /\ last.o.transformEntry = {}

\* the file written for the Adventure lists one path for each embedded
\* document, each path names a file of that document, no two embedded
\* documents share a path and none has the Adventure's own
OneFileEach(adventure, file, files) ==
  /\ file \in DOMAIN files
  /\ files[file]["_id"] = adventure["_id"]
  /\ \A i \in 1..Len(ADVENTURE_DOCS) :
       Len(Field(files[file], ADVENTURE_DOCS[i])) = Len(Field(adventure, ADVENTURE_DOCS[i]))
  /\ \A s \in Slots(adventure) :
       \A place \in {Beside(file, files[file][s[1]][s[2]].path)} :
         /\ place \in DOMAIN files
         /\ place # file
         /\ files[place]["_id"] = adventure[s[1]][s[2]]["_id"]
         /\ \A t \in Slots(adventure) :
              t # s => files[file][t[1]][t[2]] # files[file][s[1]][s[2]]

\* C16: an extract with expandAdventures writes, for every Adventure, one
\* file for the Adventure and one for each of its embedded documents; no two
\* of them share a path, none has the Adventure's path, and the Adventure's
\* file lists one path for each.
C16_OneFilePerEmbedded ==
  ExpandedExtract =>
    \A adventure \in Adventures(pre.packs[last.src].data) :
      \E file \in last.produced : OneFileEach(adventure, file, dirs[last.dest].files)

(***************************************************************************)
(* C17: an expanded Adventure in an extract by folder                      *)
(***************************************************************************)
\* the Document type that names the sub-directory of an embedded document; a
\* Folder lies with the documents of the type it groups
TypeDir(c, e) == IF c = "folders" THEN Field(e, "type") ELSE <<COLLECTION_TYPE_MAP[c]>>

\* C17: in an extract by folder with the Adventures expanded every Adventure
\* is the file <safe(name)_id>/_Adventure.<ext> beneath its Folder, and every
\* embedded document, in a Folder of the Adventure or in none, has a file
\* beneath the sub-directory of that directory named for its Document type.
C17_TypedSubDirectories ==
  (ExpandedExtract /\ last.o.folders) =>
    \A folderDocs \in {FolderDocs(Primary(pre.packs[last.src].data))} :
      \A adventure \in Adventures(pre.packs[last.src].data) :
        \A file \in {AdventurePlace(folderDocs, adventure, last.o.yaml)} :
          /\ file \in last.produced
          /\ \A s \in Slots(adventure) :
               \A listed \in {dirs[last.dest].files[file][s[1]][s[2]].path} :
                 /\ StartsWith(listed, TypeDir(s[1], adventure[s[1]][s[2]]) \o <<"/">>)
                 /\ Beside(file, listed) \in last.produced

(***************************************************************************)
(* C18: the lock probe and the refusal of the command                      *)
(***************************************************************************)
\* a step of a handler: the answer of the system for LOCK stays, and the
\* record of the run is that of this handler
HandlerStep == cli'.lock = cli.lock /\ cli'.run.action # ""

\* what opening <p>/LOCK for writing meets in the state the handler starts in
Busy == packs["p"].exists /\ cli.lock = "EBUSY"
Absent == ~packs["p"].exists
Opens == packs["p"].exists /\ cli.lock = "free"

\* C18: the probe returns locked when the open fails with EBUSY, unlocked
\* when it succeeds (the descriptor is closed again) or fails with ENOENT,
\* and raises any other error; a sorted-store pack or unpack command whose
\* probe of <pack>/LOCK returns locked sets the exit code 1 and calls neither
\* compilePack nor extractPack: no file, store or datafile changes.
C18_LockedRefused ==
  [][HandlerStep =>
       /\ cli'.run.probe # "" =>
            /\ ~cli'.run.argv.nedb
            /\ cli'.run.probe = "locked" <=> Busy
            /\ cli'.run.probe = "unlocked" <=> (Opens \/ Absent)
            /\ cli'.run.probe = "raised" <=> ~(Busy \/ Opens \/ Absent)
            /\ cli'.run.opened = (IF Opens THEN 1 ELSE 0)
            /\ cli'.run.fds = 0
            /\ cli'.run.probe = "raised" => cli'.run.thrown = cli.lock /\ cli'.run.invoked = ""
       /\ cli'.run.probe = "locked" =>
            /\ cli'.run.exitCode = 1
            /\ cli'.run.invoked = ""
            /\ UNCHANGED <<dirs, packs, dbfiles, staging, last>>
       /\ (~cli'.run.argv.nedb /\ cli'.run.invoked # "") => ~Busy /\ cli'.run.probe = "unlocked"]_vars

\* after a pack command that compiled, another process took the pack and an
\* unpack command was refused
C18_Witness ==
  /\ cli.run.action = "unpack" /\ cli.run.probe = "locked" /\ cli.run.exitCode = 1
  /\ cli.lock = "EBUSY"
  /\ last.op = "compile" /\ last.result = "ok" /\ last.dest = "p"
  /\ ~dirs["out"].exists

(***************************************************************************)
(* C19: _key in source files, never in packs                               *)
(***************************************************************************)
RECURSIVE CarriesKey(_, _)
\* the document, or a document embedded in it through the catalog, has a _key
CarriesKey(doc, collection) ==
  \/ Has(doc, "_key")
  \/ \E name \in SlotNames(collection) : \E k \in 1..Len(Slot(doc, name)) :
       CarriesKey(Slot(doc, name)[k], <<name>>)

RECURSIVE KeyedDown(_, _, _, _)
\* the document and every document embedded in it through the catalog carry
\* the _key !<collections joined by dots>!<ids joined by dots> of their place
KeyedDown(doc, collection, sublevels, ids) ==
  LET sublevel == IF sublevels = <<>> THEN collection ELSE sublevels \o <<Dot>> \o collection
      id == IF ids = <<>> THEN Field(doc, "_id") ELSE ids \o <<Dot>> \o Field(doc, "_id")
  IN /\ Field(doc, "_key") = <<Bang>> \o sublevel \o <<Bang>> \o id
     /\ \A name \in SlotNames(collection) : \A k \in 1..Len(Slot(doc, name)) :
          KeyedDown(Slot(doc, name)[k], <<name>>, sublevel, id)

\* after a compile that returned no value of the store and no record of the
\* datafile, at any level of the catalog, has a _key
NoKeyPacked ==
  (last.op = "compile" /\ last.result = "ok") =>
    IF last.o.nedb
      THEN \A records \in {dbfiles[last.dest].records} : \A files \in {pre.dirs[last.src].files} :
             \A k \in 1..Len(records) :
               \E n \in DOMAIN Keyed(files) :
                 /\ Field(files[n], "_id") = Field(records[k], "_id")
                 /\ ~CarriesKey(records[k], CollectionOf(files[n]))
      ELSE \A data \in {packs[last.dest].data} : \A key \in DOMAIN data : ~Has(data[key], "_key")

\* the file holds a primary document of the store, keyed at every level
PrimaryFile(doc, data) ==
  \E key \in DOMAIN data :
    /\ ~Includes(DecodeKey(key).collection, Dot)
    /\ Field(doc, "_key") = key
    /\ KeyedDown(doc, DecodeKey(key).collection, <<>>, <<>>)

\* the file holds a document embedded in an Adventure of the store, as the
\* Adventure holds it
EmbeddedFile(doc, data) ==
  \E adventure \in Adventures(data) : \E s \in Slots(adventure) : doc = adventure[s[1]][s[2]]

\* C19 as stated: no _key in a pack after a compile, and every file an
\* extract wrote holds a document keyed by its place at every level.
C19_KeyOnlyInFiles ==
  /\ NoKeyPacked
  /\ (last.op = "extract" /\ last.result = "ok") =>
       \A data \in {pre.packs[last.src].data} : \A files \in {dirs[last.dest].files} :
         \A n \in last.produced : PrimaryFile(files[n], data)

\* C19, amended: no _key in a pack after a compile; every file an extract
\* wrote for a primary document is keyed by its place at every level; the
\* files of the documents embedded in an expanded Adventure hold them as the
\* Adventure held them, with no _key assigned.
C19_KeyOnlyInPrimaryFiles ==
  /\ NoKeyPacked
  /\ (last.op = "extract" /\ last.result = "ok") =>
       \A data \in {pre.packs[last.src].data} : \A files \in {dirs[last.dest].files} :
         \A n \in last.produced :
           \/ PrimaryFile(files[n], data)
           \/ last.o.expandAdventures /\ EmbeddedFile(files[n], data)

\* a store compiled from an Actor with Items with effects was extracted: the
\* effect two levels down carries its key
C19_Witness ==
  /\ last.op = "extract" /\ last.result = "ok" /\ prev.op = "compile" /\ prev.result = "ok"
  /\ \E n \in last.produced :
       \E doc \in {dirs[last.dest].files[n]} :
         /\ Len(Field(doc, "items")) = 2
         /\ Field(doc["items"][1]["effects"][1], "_key")
              = <<Bang, "actors", Dot, "items", Dot, "effects", Bang, "a", Dot, "i", Dot, "e">>

(***************************************************************************)
(* C20: the depth of a key and the depth of its document                   *)
(***************************************************************************)
RECURSIVE DepthKeyed(_, _, _)
\* the document is stored under its _key, whose sublevel names the chain of
\* collections down to the document, and so is every document embedded in it
DepthKeyed(doc, chain, data) ==
  /\ Field(doc, "_key") \in DOMAIN data
  /\ data[doc["_key"]]["_id"] = Field(doc, "_id")
  /\ Split(DecodeKey(doc["_key"]).collection, Dot) = chain
  /\ \A name \in SlotNames(chain[Len(chain)]) : \A k \in 1..Len(Slot(doc, name)) :
       DepthKeyed(Slot(doc, name)[k], Append(chain, <<name>>), data)

\* C20: after a sorted-store compile of any source files that returned, every
\* primary document is stored under a key whose sublevel has one part and
\* every document embedded at depth N under a key whose sublevel has the N+1
\* parts that name the collections from the primary document down to it.
C20_KeyDepthIsDocumentDepth ==
  (last.op = "compile" /\ last.result = "ok" /\ ~last.o.nedb) =>
    \A files \in {pre.dirs[last.src].files} : \A data \in {packs[last.dest].data} :
      \A n \in Packed(files, last.o) :
        DepthKeyed(files[n], <<CollectionOf(files[n])>>, data)

(***************************************************************************)
(* SpecWalker: the hierarchy walkers on values of every kind               *)
(***************************************************************************)
\* What a field of a document may hold: a string, an array of documents, one
\* document (an object), or null.  A document is the object whose of is its
\* fields; a field the document does not have is undefined.
Null == [kind |-> "null", of |-> <<>>]
String(s) == [kind |-> "string", of |-> s]
Object(fields) == [kind |-> "object", of |-> fields]
Array(elements) == [kind |-> "array", of |-> elements]

\* doc[embeddedCollectionName]: an array has no such property
Property(value, name) ==
  IF value.kind = "object" /\ name \in DOMAIN value.of THEN value.of[name] ELSE Null

\* if ( embeddedValue )
Truthy(value) == value.kind # "null" /\ ~(value.kind = "string" /\ value.of = <<>>)

\* The callbacks: "thread" returns the options of the children (the ids down
\* to the document, as unpackDoc returns its prefixes), "void" returns
\* undefined (as packDoc does) and the parameter default options={} applies.
Callback(fn, value, options) ==
  IF fn = "thread" THEN options \o Property(value, "_id").of ELSE <<>>

RECURSIVE applyHierarchy(_, _, _, _, _, _)
\* apply(doc, collection, options) of applyHierarchy (sync: apply(doc,
\* collection, i, options) of applyHierarchySync): the calls of the callback
\* in the order they are made.  i is <<>> where the walker passes no index.
applyHierarchy(fn, sync, value, collection, i, options) ==
  LET newOptions == Callback(fn, value, options)
      catalog == Embedded(<<collection>>)
      under(k) ==
        LET embeddedValue == Property(value, catalog[k].name)
        IN IF catalog[k].arity = "array" /\ embeddedValue.kind = "array"
             THEN Flatten([e \in 1..Len(embeddedValue.of) |->
                             applyHierarchy(fn, sync, embeddedValue.of[e], catalog[k].name,
                                            IF sync THEN <<e - 1>> ELSE <<>>, newOptions)])
           ELSE IF Truthy(embeddedValue)
             THEN applyHierarchy(fn, sync, embeddedValue, catalog[k].name,
                                 IF sync THEN <<0 - 1>> ELSE <<>>, newOptions)
           ELSE <<>>
  IN <<[value |-> value, collection |-> collection, i |-> i, options |-> options]>>
       \o Flatten([k \in 1..Len(catalog) |-> under(k)])

\* the documents walked
Leaf(id) == Object([_id |-> String(<<id>>)])
WalkItems ==
  {Object([_id |-> String(<<"i">>)]),
   Object([_id |-> String(<<"j">>), effects |-> Array(<<Leaf("e")>>)]),
   Object([_id |-> String(<<"j">>), effects |-> Leaf("e")])}
WalkDelta ==
  Object([_id |-> String(<<"b">>), effects |-> Array(<<Leaf("e"), Leaf("f")>>),
          items |-> Array(<<Object([_id |-> String(<<"j">>), effects |-> Array(<<Leaf("e")>>)])>>)])

\* an Actor: items missing, null, an array of none, one or two Items, or one
\* Item in place of the array; effects missing or an array
WalkActors ==
  {Object([f \in {"_id"} \cup {n \in {"items", "effects"} : slot[n] # <<>>} |->
             IF f = "_id" THEN String(<<"a">>) ELSE slot[f][1]]) :
     slot \in [{"items", "effects"} -> {<<>>, <<Null>>} \cup {<<Array(<<>>)>>}
                                         \cup {<<Array(<<x>>)>> : x \in WalkItems}
                                         \cup {<<Array(<<x, y>>)>> : x, y \in WalkItems}
                                         \cup {<<x>> : x \in WalkItems}]}

\* a Token: delta missing, null, one delta, or an array that holds it
WalkTokens ==
  {Object([_id |-> String(<<"g">>)]), Object([_id |-> String(<<"g">>), delta |-> Null]),
   Object([_id |-> String(<<"g">>), delta |-> WalkDelta]),
   Object([_id |-> String(<<"g">>), delta |-> Array(<<WalkDelta>>)])}

InitWalker ==
  /\ dirs = [d \in DirPaths |-> NoDir]
  /\ packs = [path \in PackPaths |-> NoPack]
  /\ dbfiles = [path \in PackPaths |-> NoFile]
  /\ staging = 0
  /\ last = NoCall
  /\ pre = Fs
  /\ prev = NoCall
  /\ codec = IdleCodec
  /\ cli = IdleCli
  /\ \E input \in {[value |-> v, collection |-> "actors"] : v \in WalkActors}
                   \cup {[value |-> v, collection |-> "tokens"] : v \in WalkTokens} :
       \E fn \in {"thread", "void"} :
         walk = [IdleWalk EXCEPT !.pc = "ready", !.value = input.value,
                                 !.collection = input.collection, !.fn = fn]
  /\ build = IdleBuild
  /\ stage = IdleStage

\* a wrapped callback is applied to the value
Walked(sync) ==
  /\ walk.pc = "ready"
  /\ walk' = [walk EXCEPT !.pc = "done", !.sync = sync,
                          !.visits = applyHierarchy(walk.fn, sync, walk.value, walk.collection,
                                                    IF sync THEN <<0 - 1>> ELSE <<>>, <<>>)]
  /\ UNCHANGED <<dirs, packs, dbfiles, staging, last, pre, prev, codec, cli, build, stage>>

ApplyHierarchy == Walked(FALSE)
ApplyHierarchySync == Walked(TRUE)

NextWalker == ApplyHierarchy \/ ApplyHierarchySync

SpecWalker == InitWalker /\ [][NextWalker]_vars

(***************************************************************************)
(* SpecStaging: extractPack step by step, over earlier extractions         *)
(***************************************************************************)
\* An extraction that serializes into the output directory itself.
serializeInPlace(tmp, dest, writes) == [tmp |-> tmp, dest |-> Merge(dest, Written(writes))]

\* serializeDocument(..., path.join(dest, name)) inside extractClassicLevel,
\* whose dest is the staging directory: the output directory is not touched
serializeStaged(tmp, dest, writes) == [tmp |-> Merge(tmp, Written(writes)), dest |-> dest]

\* what fs.readFileSync(path.join(existing, name)) of the gate meets for a file
\* it is about to stage
GateReads(existing, names) ==
  {[name |-> n, seen |-> IF n \in DOMAIN existing THEN <<existing[n]>> ELSE <<>>] : n \in names}

\* the folder map extractClassicLevel builds before its loop
StagedFolderMap(data, o) ==
  LET folderKeys == SelectSeq(SortedKeys(DOMAIN data),
                              LAMBDA key : StartsWith(key, <<Bang, "folders">>))
  IN IF o.folders
       THEN buildFolderMap([k \in 1..Len(folderKeys) |-> data[folderKeys[k]]], FALSE)
       ELSE EmptyFn

StagingCalls ==
  {Call("p", "out", [PlainExtract EXCEPT !.clean = clean, !.omitVolatile = omitVolatile]) :
     clean \in BOOLEAN, omitVolatile \in BOOLEAN}
  \cup {Call("p.db", "out", [NedbExtract EXCEPT !.documentType = "Actor", !.omitVolatile = TRUE]),
        Call("p", "out", NedbExtract)}

\* the argument checks, fs.mkdirSync(dest), fs.mkdirSync(tmp)
Begin ==
  /\ stage.pc \in {"idle", "done"}
  /\ \E c \in StagingCalls :
       IF BadTarget(c.o.nedb, c.src) \/ (c.o.nedb /\ resolveCollection(c.o) = <<>>)
         THEN /\ stage' = [IdleStage EXCEPT !.pc = "done", !.call = c,
                                            !.result = IF BadTarget(c.o.nedb, c.src)
                                                         THEN "BadTarget" ELSE "MissingType"]
              /\ UNCHANGED <<dirs, staging>>
         ELSE /\ stage' = [IdleStage EXCEPT !.pc = IF c.o.nedb THEN "nedb" ELSE "open", !.call = c]
              /\ dirs' = [dirs EXCEPT ![c.dest].exists = TRUE]
              /\ staging' = staging + 1
  /\ pre' = Fs
  /\ UNCHANGED <<packs, dbfiles, last, prev, codec, cli, walk, build>>

\* await extractNedb(src, tmp, { ..., existing: dest })
StageNedb ==
  /\ stage.pc = "nedb"
  /\ \E c \in {stage.call} :
       \E run \in {IF packs[c.src].exists THEN [result |-> "EISDIR", files |-> EmptyFn]
                    ELSE extractNedb(dbfiles[c.src].records, dirs[c.dest].files,
                                     resolveCollection(c.o), c.o)} :
         /\ stage' = IF run.result = "ok"
                        THEN [stage EXCEPT !.pc = "open", !.tmp = run.files,
                                           !.reads = IF c.o.omitVolatile
                                                       THEN GateReads(dirs[c.dest].files, DOMAIN run.files)
                                                       ELSE {}]
                        ELSE [stage EXCEPT !.pc = "finally", !.result = run.result]
         /\ dbfiles' = IF packs[c.src].exists THEN dbfiles
                        ELSE [dbfiles EXCEPT ![c.src].exists = TRUE]
  /\ UNCHANGED <<dirs, packs, staging, last, pre, prev, codec, cli, walk, build>>

\* new ClassicLevel(pack, { createIfMissing: false }), db.iterator()
Open ==
  /\ stage.pc = "open"
  /\ stage' = IF ~packs[stage.call.src].exists
                 THEN [stage EXCEPT !.pc = "finally", !.result = "OpenFailed"]
                 ELSE [stage EXCEPT !.pc = "loop",
                                    !.keys = SelectSeq(SortedKeys(DOMAIN packs[stage.call.src].data),
                                                       LAMBDA key : ~Includes(DecodeKey(key).collection, Dot))]
  /\ UNCHANGED <<dirs, packs, dbfiles, staging, last, pre, prev, codec, cli, walk, build>>

\* one round of the loop over the entries: read, gate, write to staging
StageEntry ==
  /\ stage.pc = "loop" /\ stage.keys # <<>>
  /\ \E c \in {stage.call} :
       \E round \in {extractEntry(packs[c.src].data, Head(stage.keys),
                                  StagedFolderMap(packs[c.src].data, c.o),
                                  dirs[c.dest].files, c.o)} :
         IF round.result # "ok"
           THEN /\ stage' = [stage EXCEPT !.pc = "finally", !.result = round.result]
                /\ UNCHANGED dirs
           ELSE \E out \in {serializeStaged(stage.tmp, dirs[c.dest].files, round.writes)} :
                  /\ stage' = [stage EXCEPT
                                 !.keys = Tail(@), !.tmp = out.tmp,
                                 !.reads = @ \cup (IF c.o.omitVolatile
                                                     THEN GateReads(dirs[c.dest].files,
                                                                    {round.writes[k].name :
                                                                       k \in 1..Len(round.writes)})
                                                     ELSE {})]
                  /\ dirs' = [dirs EXCEPT ![c.dest].files = out.dest]
  /\ UNCHANGED <<packs, dbfiles, staging, last, pre, prev, codec, cli, walk, build>>

\* the loop is over: await db.close()
Close ==
  /\ stage.pc = "loop" /\ stage.keys = <<>>
  /\ stage' = [stage EXCEPT !.pc = IF stage.call.o.clean THEN "clean" ELSE "copy"]
  /\ UNCHANGED <<dirs, packs, dbfiles, staging, last, pre, prev, codec, cli, walk, build>>

\* if ( clean ) fs.rmSync(dest, { force: true, recursive: true, maxRetries: 10 })
Clean ==
  /\ stage.pc = "clean"
  /\ dirs' = [dirs EXCEPT ![stage.call.dest] = NoDir]
  /\ stage' = [stage EXCEPT !.pc = "copy"]
  /\ UNCHANGED <<packs, dbfiles, staging, last, pre, prev, codec, cli, walk, build>>

\* fs.cpSync(tmp, dest, { force: true, recursive: true })
Copy ==
  /\ stage.pc = "copy"
  /\ dirs' = [dirs EXCEPT ![stage.call.dest] =
                            [exists |-> TRUE, files |-> Merge(@.files, stage.tmp)]]
  /\ stage' = [stage EXCEPT !.pc = "finally", !.result = "ok"]
  /\ UNCHANGED <<packs, dbfiles, staging, last, pre, prev, codec, cli, walk, build>>

\* finally { fs.rmSync(tmp, ...) }
Finally ==
  /\ stage.pc = "finally"
  /\ staging' = staging - 1
  /\ stage' = [stage EXCEPT !.pc = "done", !.tmp = EmptyFn]
  /\ UNCHANGED <<dirs, packs, dbfiles, last, pre, prev, codec, cli, walk, build>>

NextStaging == Begin \/ StageNedb \/ Open \/ StageEntry \/ Close \/ Clean \/ Copy \/ Finally

SpecStaging == InitExtract /\ [][NextStaging]_vars

(***************************************************************************)
(* SpecFolders: buildFolderMap step by step                                *)
(***************************************************************************)
\* the rounds of one while ( parent ) loop that are counted and whose path is
\* kept whole; more than the folders of any list below
MaxRounds == 4

\* the Folder documents of a pack: folder is the _id of the parent, or null
FolderDoc(id, parent) == [_id |-> <<id>>, name |-> <<"Zh">>, type |-> <<"Item">>, folder |-> parent]

\* f, g and e with every choice of parents: none, one another, themselves, a
\* folder the pack does not hold
FolderLists ==
  {<<FolderDoc("f", pf), FolderDoc("g", pg), FolderDoc("e", pe)>> :
     pf \in {<<>>, <<"f">>, <<"g">>}, pg \in {<<>>, <<"f">>, <<"g">>, <<"e">>},
     pe \in {<<>>, <<"g">>, <<"x">>}}

\* folderMap.get(id): undefined is the empty string
FolderOf(folderMap, id) == IF id \in DOMAIN folderMap THEN id ELSE <<>>

\* the keys of the Map in insertion order
InsertionOrder(folders) ==
  LET ids == [k \in 1..Len(folders) |-> Field(folders[k], "_id")]
  IN SelectSeq([k \in 1..Len(ids) |-> IF \E j \in 1..k - 1 : ids[j] = ids[k] THEN <<>> ELSE ids[k]],
               LAMBDA id : id # <<>>)

InitFolders ==
  /\ dirs = [d \in DirPaths |-> NoDir]
  /\ packs = [p \in PackPaths |-> NoPack]
  /\ dbfiles = [p \in PackPaths |-> NoFile]
  /\ staging = 0
  /\ last = NoCall
  /\ pre = Fs
  /\ prev = NoCall
  /\ codec = IdleCodec
  /\ cli = IdleCli
  /\ walk = IdleWalk
  /\ build = IdleBuild
  /\ stage = IdleStage

\* buildFolderMap(folders, { groupByType })
BuildCall ==
  /\ build.pc \in {"idle", "done", "thrown"}
  /\ \E folders \in FolderLists, groupByType \in BOOLEAN :
       build' = [IdleBuild EXCEPT !.pc = "set", !.folders = folders, !.groupByType = groupByType,
                                  !.rest = folders]
  /\ UNCHANGED <<dirs, packs, dbfiles, staging, last, pre, prev, codec, cli, walk, stage>>

\* for ( const doc of folders ) folderMap.set(doc._id, { name, folder, type })
SetFolder ==
  /\ build.pc = "set"
  /\ build' = IF build.rest = <<>>
                 THEN [build EXCEPT !.pc = "values", !.rest = InsertionOrder(build.folders)]
                 ELSE LET doc == Head(build.rest)
                      IN [build EXCEPT
                            !.rest = Tail(@),
                            !.folderMap = Put(@, Field(doc, "_id"),
                                              [name |-> IF Field(doc, "name") # <<>>
                                                          THEN SafeNameId(doc) ELSE Field(doc, "_id"),
                                               folder |-> Field(doc, "folder"),
                                               type |-> Field(doc, "type")])]
  /\ UNCHANGED <<dirs, packs, dbfiles, staging, last, pre, prev, codec, cli, walk, stage>>

\* for ( const folder of folderMap.values() ): parent = folderMap.get(folder.folder),
\* folder.path = folder.name; return folderMap when no folder is left
NextFolder ==
  /\ build.pc = "values"
  /\ build' = IF build.rest = <<>>
                 THEN [build EXCEPT !.pc = "done"]
                 ELSE LET id == Head(build.rest)
                      IN [build EXCEPT
                            !.pc = "while", !.folder = id, !.rounds = 0,
                            !.parent = FolderOf(build.folderMap, build.folderMap[id].folder),
                            !.path = build.folderMap[id].name]
  /\ UNCHANGED <<dirs, packs, dbfiles, staging, last, pre, prev, codec, cli, walk, stage>>

\* one round of while ( parent ): folder.path = path.join(parent.name, folder.path),
\* parent = folderMap.get(parent.folder). Past MaxRounds the path is no longer
\* recorded whole and the rounds are no longer counted.
WhileParent ==
  /\ build.pc = "while" /\ build.parent # <<>>
  /\ build' = [build EXCEPT
                 !.path = IF build.rounds < MaxRounds
                            THEN pathJoin(build.folderMap[build.parent].name, @) ELSE @,
                 !.rounds = IF @ < MaxRounds THEN @ + 1 ELSE @,
                 !.parent = FolderOf(build.folderMap, build.folderMap[build.parent].folder)]
  /\ UNCHANGED <<dirs, packs, dbfiles, staging, last, pre, prev, codec, cli, walk, stage>>

\* the path has outgrown what the engine holds in a string: path.join throws
PathOverflow ==
  /\ build.pc = "while" /\ build.parent # <<>> /\ build.rounds = MaxRounds
  /\ build' = [build EXCEPT !.pc = "thrown"]
  /\ UNCHANGED <<dirs, packs, dbfiles, staging, last, pre, prev, codec, cli, walk, stage>>

\* parent is undefined: if ( groupByType ) folder.path = path.join(folder.type, folder.path)
WhileEnd ==
  /\ build.pc = "while" /\ build.parent = <<>>
  /\ build' = [build EXCEPT
                 !.pc = "values", !.rest = Tail(@),
                 !.paths = Put(@, build.folder,
                               IF build.groupByType
                                 THEN pathJoin(build.folderMap[build.folder].type, build.path)
                                 ELSE build.path)]
  /\ UNCHANGED <<dirs, packs, dbfiles, staging, last, pre, prev, codec, cli, walk, stage>>

\* the statements of a call under way
BuildStep == SetFolder \/ NextFolder \/ WhileParent \/ PathOverflow \/ WhileEnd

NextFolders == BuildCall \/ BuildStep

\* a call, once made, keeps running: the loops have no await that could be
\* left pending
SpecFolders == InitFolders /\ [][NextFolders]_vars /\ WF_vars(BuildStep)

(***************************************************************************)
(* SpecWorkon: `package workon` and `package clear`, one process each      *)
(***************************************************************************)
\* the manifests under <dataPath>/Data: b is a module and a system
Installed ==
  {[id |-> "a", type |-> "Module"], [id |-> "b", type |-> "Module"],
   [id |-> "b", type |-> "System"], [id |-> "w", type |-> "World"]}

\* readPackageManifests(dataPath, type): the manifests of one type by id
readPackageManifests(type) == {pkg \in Installed : pkg.type = type}

\* discoverPackageDirectory: undefined when no dataPath is configured
discoverPackageDirectory(config) ==
  [found |-> config.dataPath # "",
   modules |-> readPackageManifests("Module"), systems |-> readPackageManifests("System"),
   worlds |-> readPackageManifests("World"), packages |-> Installed]

\* map.get(id): the manifests with that id, none or one
Get(map, id) == {pkg \in map : pkg.id = id}

\* the handler's two assignments and handleWorkon(argv): currentPackageId and
\* currentPackageType start as the persisted values
handleWorkon(config, argv) ==
  LET currentPackageId ==
        IF argv.value # "" THEN argv.value
        ELSE IF argv.id # "" THEN argv.id ELSE config.currentPackageId
      set == [config EXCEPT !.currentPackageId = currentPackageId]
      game == discoverPackageDirectory(config)
      pkgCount == Cardinality(Get(game.packages, currentPackageId))
      pkg == IF Get(game.worlds, currentPackageId) # {} THEN Get(game.worlds, currentPackageId)
             ELSE IF Get(game.systems, currentPackageId) # {} THEN Get(game.systems, currentPackageId)
             ELSE Get(game.modules, currentPackageId)
  IN IF argv.type # ""
       THEN [config |-> [set EXCEPT !.currentPackageType = argv.type], exitCode |-> 0, thrown |-> ""]
     ELSE IF ~game.found
       THEN [config |-> set, exitCode |-> 1, thrown |-> "TypeError"]
     ELSE IF pkgCount > 1 \/ pkg = {}
       THEN [config |-> set, exitCode |-> 1, thrown |-> ""]
     ELSE [config |-> [set EXCEPT !.currentPackageType = The(pkg).type], exitCode |-> 0, thrown |-> ""]

\* handleClear()
handleClear(config) == [config EXCEPT !.currentPackageId = "", !.currentPackageType = ""]

\* `package workon [value] [--id <id>] [--type <type>]`
WorkonArgvs ==
  [value : {"", "a", "b", "w", "x"}, id : {"", "a"}, type : {"", "Module", "System"}]

InitWorkon ==
  /\ dirs = [d \in DirPaths |-> NoDir]
  /\ packs = [path \in PackPaths |-> NoPack]
  /\ dbfiles = [path \in PackPaths |-> NoFile]
  /\ staging = 0
  /\ last = NoCall
  /\ pre = Fs
  /\ prev = NoCall
  /\ codec = IdleCodec
  /\ \E dataPath \in {"", "data"} : cli = [IdleCli EXCEPT !.config.dataPath = dataPath]
  /\ walk = IdleWalk
  /\ build = IdleBuild
  /\ stage = IdleStage

\* `package workon` is run
HandleWorkon ==
  /\ \E argv \in WorkonArgvs :
       \E ran \in {handleWorkon(cli.config, argv)} :
         cli' = [cli EXCEPT !.config = ran.config,
                            !.run = [NoRun EXCEPT !.action = "workon", !.argv = argv,
                                                  !.exitCode = ran.exitCode, !.thrown = ran.thrown]]
  /\ UNCHANGED <<dirs, packs, dbfiles, staging, last, pre, prev, codec, walk, build, stage>>

\* `package clear` is run
HandleClear ==
  /\ cli' = [cli EXCEPT !.config = handleClear(cli.config), !.run = [NoRun EXCEPT !.action = "clear"]]
  /\ UNCHANGED <<dirs, packs, dbfiles, staging, last, pre, prev, codec, walk, build, stage>>

NextWorkon == HandleWorkon \/ HandleClear

SpecWorkon == InitWorkon /\ [][NextWorkon]_vars

(***************************************************************************)
(* C21: embedded documents are stored by reference                         *)
(***************************************************************************)
RECURSIVE ByReference(_, _, _)
\* the value stored for doc holds, in every slot of the catalog of its
\* collection, the _ids of doc's embedded documents in their order (none for
\* a missing slot, at most one for single arity), and every embedded
\* document of doc is stored by reference under its own key in turn
ByReference(doc, collection, data) ==
  /\ Field(doc, "_key") \in DOMAIN data
  /\ \A value \in {data[doc["_key"]]} : \A k \in 1..Len(Embedded(collection)) :
       \A slot \in {Embedded(collection)[k]} :
         /\ Has(value, slot.name)
         /\ value[slot.name] =
              [i \in 1..Len(Slot(doc, slot.name)) |-> Field(Slot(doc, slot.name)[i], "_id")]
         /\ slot.arity = "single" => Len(value[slot.name]) <= 1
         /\ \A i \in 1..Len(Slot(doc, slot.name)) :
              ByReference(Slot(doc, slot.name)[i], <<slot.name>>, data)

\* C21: after a sorted-store compile that returned, the value of every source
\* document holds in each catalog slot the _ids of the source's embedded
\* documents in their order ([] or null for a missing slot), and every
\* embedded document, down the catalog, is stored under its own key.
C21_StoredByReference ==
  (last.op = "compile" /\ last.result = "ok" /\ ~last.o.nedb) =>
    \A files \in {pre.dirs[last.src].files} : \A data \in {packs[last.dest].data} :
      \A n \in Packed(files, last.o) :
        ByReference(files[n], CollectionOf(files[n]), data)

\* the Actor with two Items (one with an effect, one with an empty effects
\* slot) and the Scene whose Token has a delta were compiled together
C21_Witness ==
  /\ last.op = "compile" /\ last.result = "ok" /\ ~last.o.nedb
  /\ last.o.transformEntry = {}
  /\ \E n, m \in DOMAIN pre.dirs[last.src].files :
       /\ pre.dirs[last.src].files[n] = ActorFull
       /\ pre.dirs[last.src].files[m] = SceneToken
  /\ \A data \in {packs[last.dest].data} :
       /\ data[ActorFull["_key"]]["items"] = <<<<"i">>, <<"j">>>>
       /\ data[ActorFull["_key"]]["effects"] = <<>>
       /\ data[SceneToken["tokens"][1]["_key"]]["delta"] = <<<<"e">>>>
       /\ data[SceneToken["tokens"][1]["delta"][1]["_key"]]["items"] = <<>>
       /\ SceneToken["tokens"][1]["delta"][1]["effects"][1]["_key"] \in DOMAIN data

(***************************************************************************)
(* C22: the volatile overlay and the position of embedded documents        *)
(***************************************************************************)
RECURSIVE PairedDown(_, _, _)
\* copy carries the volatile _stats fields of old, and every document
\* embedded in copy those of the document at the same slot and index of old
PairedDown(copy, old, collection) ==
  /\ (Has(copy, "_stats") /\ Has(old, "_stats")) =>
       \A p \in (DOMAIN old["_stats"]) \cap VOLATILE_FIELDS :
         p \in DOMAIN copy["_stats"] /\ copy["_stats"][p] = old["_stats"][p]
  /\ \A name \in SlotNames(collection) :
       \A k \in 1..Len(Slot(copy, name)) :
         k <= Len(Slot(old, name)) => PairedDown(copy[name][k], old[name][k], <<name>>)

\* C22: in an extract with omitVolatile=true over an existing file, the clone
\* the gate compares holds at every position, at any depth, the volatile
\* _stats fields of the document at the same chain of collection names and
\* indices of the existing file.
C22_OverlayPairsCounterparts ==
  (last.op = "extract" /\ last.result = "ok" /\ last.o.omitVolatile /\ ~last.o.nedb) =>
    \A n \in last.produced \cap DOMAIN pre.dirs[last.dest].files :
      \A old \in {pre.dirs[last.dest].files[n]} : \A doc \in {Candidates[n]} :
        \A copy \in {overlay(doc, CollectionOf(doc), <<>>, old)} :
          (Has(doc, "_stats") /\ Has(old, "_stats") /\ copy.ok) =>
            PairedDown(copy.doc, old, CollectionOf(doc))

(***************************************************************************)
(* C23: the handle of the sorted store on every exit path                  *)
(***************************************************************************)
\* C23: a call of compilePack or extractPack that opened a sorted-store
\* handle has closed it when it settles, whether it returned or threw.
C23_HandleReleased ==
  (last.op \in {"compile", "extract"} /\ last.opened) => last.closed

(***************************************************************************)
(* C24: compile's reconstruction of an expanded Adventure                  *)
(***************************************************************************)
\* C24: after an extract with the Adventures expanded (by folder or flat),
\* the file of every Adventure, reconstructed against the directory that
\* holds it, has in every embedded collection the documents the Adventure
\* of the pack has, in their order: each listed path is the file of its
\* document.
C24_ExpansionInverted ==
  ExpandedExtract =>
    \A files \in {dirs[last.dest].files} :
      \A adventure \in Adventures(pre.packs[last.src].data) :
        \E file \in last.produced :
          /\ Field(files[file], "_key") = adventure["_key"]
          /\ \A rebuilt \in {reconstructAdventure(files, dirname(file), files[file], {})} :
               /\ rebuilt.ok
               /\ \A c \in Range(ADVENTURE_DOCS) : Field(rebuilt.doc, c) = Field(adventure, c)

(***************************************************************************)
(* C25: the order in which the scanner lists the source files              *)
(***************************************************************************)
\* the records of a datafile, whatever their order
RecordsOf(file) == {file.records[k] : k \in 1..Len(file.records)}

\* C25: whatever order readdirSync lists the files of the source directory
\* in, the compile just made would have failed if it failed and returned if
\* it returned, and then with the same store (keys and values) and the same
\* records in the datafile.
C25_OrderIndependent ==
  (last.op = "compile" /\ pre.dirs[last.src].exists) =>
    \A order \in Orders(DOMAIN pre.dirs[last.src].files) :
      \A out \in {compilePack(pre, last.src, last.dest, last.o, order)} :
        /\ (out.result = "ok") <=> (last.result = "ok")
        /\ last.result = "ok" =>
             /\ out.fs.packs[last.dest] = packs[last.dest]
             /\ out.fs.dbfiles[last.dest].exists = dbfiles[last.dest].exists
             /\ RecordsOf(out.fs.dbfiles[last.dest]) = RecordsOf(dbfiles[last.dest])

\* two files were packed into a datafile, which lists them in the order
\* they were read in
C25_Witness ==
  /\ last.op = "compile" /\ last.result = "ok" /\ last.o.nedb
  /\ Cardinality(Packed(pre.dirs[last.src].files, last.o)) = 2
  /\ Len(dbfiles[last.dest].records) = 2
  /\ \E order \in Orders(DOMAIN pre.dirs[last.src].files) :
       compilePack(pre, last.src, last.dest, last.o, order).fs.dbfiles[last.dest].records
         # dbfiles[last.dest].records

(***************************************************************************)
(* C26: the order of the walker and the options it hands down              *)
(***************************************************************************)
RECURSIVE Preorder(_, _, _, _, _, _)
\* the calls in the order C26 describes: the document first, then for each
\* slot of the catalog of its collection, in turn, the whole subtree of each
\* element of the array (array arity) or of the value when there is one
\* (single arity), each with the options the callback returned for the
\* document
Preorder(fn, sync, value, collection, i, options) ==
  LET catalog == Embedded(<<collection>>)
      under(k) ==
        LET embeddedValue == Property(value, catalog[k].name)
        IN IF catalog[k].arity = "array"
             THEN IF embeddedValue.kind = "array"
                    THEN Flatten([e \in 1..Len(embeddedValue.of) |->
                                    Preorder(fn, sync, embeddedValue.of[e], catalog[k].name,
                                             IF sync THEN <<e - 1>> ELSE <<>>,
                                             Callback(fn, value, options))])
                    ELSE <<>>
           ELSE IF Truthy(embeddedValue)
             THEN Preorder(fn, sync, embeddedValue, catalog[k].name,
                           IF sync THEN <<0 - 1>> ELSE <<>>, Callback(fn, value, options))
           ELSE <<>>
  IN <<[value |-> value, collection |-> collection, i |-> i, options |-> options]>>
       \o Flatten([k \in 1..Len(catalog) |-> under(k)])

\* C26: the walker calls the callback on a document before any document
\* embedded in it, on the elements of an array in array order, on a whole
\* subtree before the next sibling, with the options returned for the direct
\* parent, and only on the elements of the arrays of array slots and the
\* values of single slots that the catalog lists.
C26_WalkerOrder ==
  walk.pc = "done" =>
    walk.visits = Preorder(walk.fn, walk.sync, walk.value, walk.collection,
                           IF walk.sync THEN <<0 - 1>> ELSE <<>>, <<>>)

(***************************************************************************)
(* C27: the output directory while the entries are staged                  *)
(***************************************************************************)
\* extractPack is past its argument checks and has not finished staging
Staging == stage.pc \in {"nedb", "open", "loop"}

C28_FolderMapBuilt ==
  (build.pc = "set") ~>
    (build.pc = "done" /\ DOMAIN build.paths = {Field(build.folders[k], "_id") : k \in 1..Len(build.folders)})

(***************************************************************************)
(* C29: one file per primary entry                                         *)
(***************************************************************************)
\* the primary entries of a sorted store that the transformer does not discard
PrimaryKept(data, o) ==
  {key \in DOMAIN data : /\ ~Includes(DecodeKey(key).collection, Dot)
                          /\ ~Discards(o.transformEntry, data[key])}

\* C29: an extract of a sorted store that returned (Adventures not expanded)
\* wrote as many files as the pack has primary entries that were not
\* discarded: no two of them were written to the same path.
C29_FileNamesInjective ==
  (/\ last.op = "extract" /\ last.result = "ok"
   /\ ~last.o.nedb /\ ~last.o.expandAdventures) =>
    Cardinality(last.produced) = Cardinality(PrimaryKept(pre.packs[last.src].data, last.o))

(***************************************************************************)
(* C30: a failed workon and the persisted configuration                    *)
(***************************************************************************)
\* `workon <id>` was run without --type and the id names
\* no installed package or more than one
FailedWorkon(run) ==
  /\ run.action = "workon" /\ run.argv.value # "" /\ run.argv.type = ""
  /\ Cardinality(Get(Installed, run.argv.value)) # 1

\* the persisted id and type are both unset or are those of one package
NamesPackage(config) ==
  \/ config.currentPackageId = "" /\ config.currentPackageType = ""
  \/ [id |-> config.currentPackageId, type |-> config.currentPackageType] \in Installed

\* C30: a workon without --type whose id matches no installed package, or
\* more than one, reports an error and leaves the persisted currentPackageId
\* and currentPackageType as they were; after every sequence of workon and
\* clear the persisted id and type are both unset or name one package.
C30_FailedWorkonKeepsConfig ==
  /\ [][FailedWorkon(cli'.run) =>
          /\ cli'.run.exitCode = 1
          /\ cli'.config.currentPackageId = cli.config.currentPackageId
          /\ cli'.config.currentPackageType = cli.config.currentPackageType]_vars
  /\ [](NamesPackage(cli.config))

====
